---------------------------- MODULE Spec2Model ----------------------------
(***************************************************************************)
(* A model of the xcube-cds plugin: the time-range converter, the          *)
(* time-selector formatter, the dataset handlers and the store/opener.     *)
(*                                                                         *)
(* Init draws the call (operation and arguments) from bounded sets, the     *)
(* actions execute it.  `call' is the call being made, `pc' the position   *)
(* inside it, `result' what it returned or raised, `events' the            *)
(* collaborators it reached (handler methods, backend client), in order,   *)
(* `now' the value datetime.datetime.now() returns, and `frame' the local  *)
(* variables of a call that takes more than one step.  `opener' holds the  *)
(* fields of the store object and `fs' the directories and files written;  *)
(* the specifications of the store object (SpecOpener, SpecThreads) keep   *)
(* call, pc, result, events and frame per calling thread.                  *)
(***************************************************************************)
EXTENDS Integers, Sequences, FiniteSets, TLC

VARIABLES call, pc, result, events, now, frame, opener, fs

vars == <<call, pc, result, events, now, frame, opener, fs>>

(***************************************************************************)
(* Bounds of the model.                                                    *)
(***************************************************************************)
\* Input years are 2000 .. 2000 + MaxYearSpan.
MaxYearSpan == 2
\* time_range sequences have 0 .. MaxRangeLen elements.
MaxRangeLen == 3
\* The lists of a selector or a request have 0 .. MaxListLen elements.
MaxListLen == 2

(***************************************************************************)
(* Values.  Python's None, and the outcome of a call: a returned value or  *)
(* a raised exception.                                                     *)
(***************************************************************************)
None == [kind |-> "None"]

Returned(v) == [status |-> "returned", value |-> v]

Raised(e) == [status |-> "raised", value |-> e]

NoResult == [status |-> "none", value |-> None]

\* Python values whose type the code inspects: str, int and list.
PyStr(s) == [kind |-> "str", val |-> s]

PyInt(n) == [kind |-> "int", val |-> n]

PyList(items) == [kind |-> "list", val |-> items]

\* A dict given as a record of all its possible keys, Absent marking the
\* keys it does not hold.
Absent == [kind |-> "absent"]

DictOf(r) == [k \in {key \in DOMAIN r : r[key] # Absent} |-> r[k]]

\* The lists of at most n elements of S.
ListsUpTo(S, n) == UNION {[1 .. len -> S] : len \in 0 .. n}

(***************************************************************************)
(* The proleptic Gregorian calendar of datetime.datetime.  A datetime is   *)
(* a record of its fields; arithmetic (timedelta addition, comparison,     *)
(* the recurrence steps of dateutil.rrule) is done on the minute count     *)
(* since 0001-01-01T00:00, as datetime does on ordinals.                   *)
(***************************************************************************)
DateTime(y, m, d, h, mi) ==
    [kind |-> "datetime", year |-> y, month |-> m, day |-> d,
     hour |-> h, minute |-> mi]

IsLeap(y) == (y % 4 = 0) /\ ((y % 100 # 0) \/ (y % 400 = 0))

DaysInMonth(y, m) ==
    IF m = 2 THEN (IF IsLeap(y) THEN 29 ELSE 28)
    ELSE IF m \in {4, 6, 9, 11} THEN 30 ELSE 31

\* Days from 0001-01-01 to the first day of year y.
DaysBeforeYear(y) ==
    365 * (y - 1) + ((y - 1) \div 4) - ((y - 1) \div 100) + ((y - 1) \div 400)

RECURSIVE DaysBeforeMonth(_, _)
DaysBeforeMonth(y, m) ==
    IF m = 1 THEN 0 ELSE DaysBeforeMonth(y, m - 1) + DaysInMonth(y, m - 1)

\* datetime.toordinal, counted from 0.
ToOrdinal(y, m, d) == DaysBeforeYear(y) + DaysBeforeMonth(y, m) + (d - 1)

MinutesPerDay == 1440

\* The instant of a datetime, in minutes.
Minutes(dt) ==
    (ToOrdinal(dt.year, dt.month, dt.day) * 24 + dt.hour) * 60 + dt.minute

\* The years a recurrence can reach: the input years and the year after
\* (month_max lies up to 366 days after the start).
CalendarYears == 2000 .. (2000 + MaxYearSpan + 2)

\* datetime.fromordinal as a table over the calendar years.
FromOrdinal ==
    [n \in ToOrdinal(2000, 1, 1) .. ToOrdinal(2000 + MaxYearSpan + 2, 12, 31) |->
        LET y == CHOOSE yy \in CalendarYears :
                    /\ ToOrdinal(yy, 1, 1) <= n
                    /\ n <= ToOrdinal(yy, 12, 31)
            m == CHOOSE mm \in 1 .. 12 :
                    /\ ToOrdinal(y, mm, 1) <= n
                    /\ n <= ToOrdinal(y, mm, DaysInMonth(y, mm))
        IN  [year |-> y, month |-> m, day |-> n - ToOrdinal(y, m, 1) + 1]]

\* The datetime of an instant.
FromMinutes(t) ==
    LET date == FromOrdinal[t \div MinutesPerDay]
    IN  DateTime(date.year, date.month, date.day,
                 (t % MinutesPerDay) \div 60, t % 60)

\* A set of integers as the ascending list sorted(set(...)) returns.
RECURSIVE SortedList(_)
SortedList(S) ==
    IF S = {} THEN <<>>
    ELSE LET least == CHOOSE x \in S : \A z \in S : x <= z
         IN  <<least>> \o SortedList(S \ {least})

\* list(range(a, b)).
RangeList(a, b) == [i \in 1 .. (IF b > a THEN b - a ELSE 0) |-> a + i - 1]

ListItems(s) == {s[i] : i \in DOMAIN s}

Min(a, b) == IF a <= b THEN a ELSE b

(***************************************************************************)
(* dateutil.rrule.rrule(freq, dtstart, until) for freq HOURLY and DAILY:   *)
(* the instants dtstart + k * step that are not after `until'.             *)
(***************************************************************************)
RRuleStep(dtstart, until, step) ==
    IF until < dtstart THEN {}
    ELSE {dtstart + k * step : k \in 0 .. ((until - dtstart) \div step)}

(***************************************************************************)
(* rrule(freq=MONTHLY, dtstart, until) for a dtstart on the first of a     *)
(* month at 00:00: the first day of each following month, not after        *)
(* `until'.  Months are counted as year * 12 + (month - 1).                *)
(***************************************************************************)
MonthIndex(y, m) == y * 12 + (m - 1)

FirstOfMonth(ix) == Minutes(DateTime(ix \div 12, (ix % 12) + 1, 1, 0, 0))

RRuleMonthly(y, m, until) ==
    LET last == MonthIndex(FromMinutes(until).year, FromMinutes(until).month)
    IN  IF until < FirstOfMonth(MonthIndex(y, m)) THEN {}
        ELSE {ix \in MonthIndex(y, m) .. last : FirstOfMonth(ix) <= until}

(***************************************************************************)
(* CDSDatasetHandler.convert_time_range.  time_range is a list whose       *)
(* elements are parsed ISO-8601 strings (datetime records, as isoparse     *)
(* returns them) or None.                                                  *)
(***************************************************************************)
HourMaxDelta == 24 * 60

\* The "more obvious" maximum the source's comment warns against.
DayMaxDelta_31 == 31 * MinutesPerDay

DayMaxDelta == 100 * MinutesPerDay

\* A maximum of one month instead of a year.
MonthMaxDelta_31 == 31 * MinutesPerDay

MonthMaxDelta == 366 * MinutesPerDay

\* A check that only rejects lists that are too short.
HasInvalidLength_TooShort(time_range) == Len(time_range) < 2

HasInvalidLength(time_range) == Len(time_range) # 2

convert_time_range_hours(time0, time1) ==
    LET hour0 == Minutes(DateTime(time0.year, time0.month, time0.day,
                                  time0.hour, 0))
        hour1 == Minutes(DateTime(time1.year, time1.month, time1.day,
                                  time1.hour, 59))
        hour_max == hour0 + HourMaxDelta
    IN  SortedList({FromMinutes(t).hour :
                        t \in RRuleStep(hour0, Min(hour1, hour_max), 60)})

convert_time_range_days(time0, time1) ==
    LET day0 == Minutes(DateTime(time0.year, time0.month, time0.day, 0, 1))
        day1 == Minutes(DateTime(time1.year, time1.month, time1.day, 23, 59))
        day_max == day0 + DayMaxDelta
    IN  SortedList({FromMinutes(t).day :
                        t \in RRuleStep(day0, Min(day1, day_max),
                                        MinutesPerDay)})

\* The months of a full year from the start, whatever the end.
convert_time_range_months_NoEnd(time0, time1) ==
    LET month0 == Minutes(DateTime(time0.year, time0.month, 1, 0, 0))
    IN  SortedList({(ix % 12) + 1 :
                        ix \in RRuleMonthly(time0.year, time0.month,
                                            month0 + MonthMaxDelta)})

convert_time_range_months(time0, time1) ==
    LET month0 == Minutes(DateTime(time0.year, time0.month, 1, 0, 0))
        month1 == Minutes(DateTime(time1.year, time1.month, 28, 0, 0))
        month_max == month0 + MonthMaxDelta
    IN  SortedList({(ix % 12) + 1 :
                        ix \in RRuleMonthly(time0.year, time0.month,
                                            Min(month1, month_max))})

convert_time_range_years(time0, time1) ==
    RangeList(time0.year, time1.year + 1)

convert_time_range(time_range, dt_now) ==
    IF HasInvalidLength(time_range) THEN Raised("ValueError")
    ELSE LET time0 == time_range[1]
             time1 == IF time_range[2] = None THEN dt_now ELSE time_range[2]
         IN  Returned([hours  |-> convert_time_range_hours(time0, time1),
                       days   |-> convert_time_range_days(time0, time1),
                       months |-> convert_time_range_months(time0, time1),
                       years  |-> convert_time_range_years(time0, time1)])

(***************************************************************************)
(* The calls of convert_time_range the model makes.  The end points are    *)
(* drawn from the first, second and last day of January, February, April   *)
(* and December of each input year, at four times of day.                  *)
(***************************************************************************)
InputYears == 2000 .. (2000 + MaxYearSpan)

InputMonths == {1, 2, 4, 12}

InputDays(y, m) == {1, 2, DaysInMonth(y, m)}

InputTimesOfDay == {<<0, 0>>, <<5, 0>>, <<8, 0>>, <<19, 25>>}

InputTimes ==
    UNION {UNION {{DateTime(y, m, d, tod[1], tod[2]) :
                        d \in InputDays(y, m), tod \in InputTimesOfDay} :
                  m \in InputMonths} : y \in InputYears}

\* The clock's value when the call is made without an open end.
NowDefault == DateTime(2000 + MaxYearSpan, 12, 31, 23, 59)

NowValues == {DateTime(2000 + MaxYearSpan, 6, 15, 12, 30), NowDefault}

\* Elements of the time_range lists that are not pairs.
ShortInputTimes ==
    {DateTime(2000, 1, 1, 0, 0), DateTime(2000, 12, 31, 23, 59)}

TimeRangeCalls ==
    [op : {"convert_time_range"},
     time_range : (InputTimes \X InputTimes)
                  \cup UNION {[1 .. n -> ShortInputTimes] :
                                  n \in (0 .. MaxRangeLen) \ {2}}]

OpenEndCalls ==
    [op : {"convert_time_range"},
     time_range : {<<t, None>> : t \in InputTimes}]

InitTime ==
    /\ \/ call \in TimeRangeCalls /\ now = NowDefault
       \/ call \in OpenEndCalls /\ now \in NowValues
    /\ pc = "call"
    /\ result = NoResult
    /\ events = <<>>
    /\ frame = <<>>
    /\ opener = <<>>
    /\ fs = {}

ConvertTimeRange ==
    /\ pc = "call"
    /\ call.op = "convert_time_range"
    /\ result' = convert_time_range(call.time_range, now)
    /\ pc' = "done"
    /\ UNCHANGED <<call, events, now, frame, opener, fs>>

NextTime == ConvertTimeRange

SpecTime == InitTime /\ [][NextTime]_vars

(***************************************************************************)
(* The format specifications 02d and 04d of an f-string, for x >= 0: the   *)
(* decimal digits of x, padded on the left with zeros to `width'.          *)
(***************************************************************************)
Digit == <<"0", "1", "2", "3", "4", "5", "6", "7", "8", "9">>

RECURSIVE Decimal(_)
Decimal(x) ==
    IF x < 10 THEN Digit[x + 1] ELSE Decimal(x \div 10) \o Digit[(x % 10) + 1]

RECURSIVE NumDigits(_)
NumDigits(x) == IF x < 10 THEN 1 ELSE 1 + NumDigits(x \div 10)

RECURSIVE Zeros(_)
Zeros(n) == IF n <= 0 THEN "" ELSE "0" \o Zeros(n - 1)

\* The digits without the padding.
FormatD_NoPad(x, width) == Decimal(x)

FormatD(x, width) == Zeros(width - NumDigits(x)) \o Decimal(x)

(***************************************************************************)
(* CDSDatasetHandler.transform_time_param: the renamed key and the         *)
(* formatted values, or (None, None) for any other key.                    *)
(***************************************************************************)
MapList(value, F(_)) ==
    PyList([i \in DOMAIN value.val |-> PyStr(F(value.val[i].val))])

FormatHour(x) == FormatD(x, 2) \o ":00"

FormatDay(x) == FormatD(x, 2)

FormatMonth(x) == FormatD(x, 2)

FormatYear(x) == FormatD(x, 4)

transform_time_param(key, value) ==
    IF key = "hours" THEN <<PyStr("time"), MapList(value, FormatHour)>>
    ELSE IF key = "days" THEN <<PyStr("day"), MapList(value, FormatDay)>>
    ELSE IF key = "months" THEN <<PyStr("month"), MapList(value, FormatMonth)>>
    ELSE IF key = "years" THEN <<PyStr("year"), MapList(value, FormatYear)>>
    ELSE <<None, None>>

(***************************************************************************)
(* CDSDatasetHandler.transform_time_params: the pairs transform_time_param *)
(* returns for the items of params, those with key None left out.          *)
(***************************************************************************)
transform_time_params(params) ==
    LET pairs == {transform_time_param(k0, params[k0]) : k0 \in DOMAIN params}
        kept  == {pair \in pairs : pair[1] # None}
    IN  [k1 \in {pair[1].val : pair \in kept} |->
            (CHOOSE pair \in kept : pair[1].val = k1)[2]]

(***************************************************************************)
(* CDSDatasetHandler.unwrap_singleton_values.                              *)
(***************************************************************************)
\* An unwrapping of every non-empty list.
IsSingleton_NonEmpty(v) == v.kind = "list" /\ Len(v.val) >= 1

IsSingleton(v) == v.kind = "list" /\ Len(v.val) = 1

unwrap_singleton_values(dictionary) ==
    [k \in DOMAIN dictionary |->
        IF IsSingleton(dictionary[k]) THEN dictionary[k].val[1]
        ELSE dictionary[k]]

(***************************************************************************)
(* The calls of the formatter the model makes.  A selector list holds      *)
(* values of its axis, in any order; the other keys are open parameters    *)
(* that are no time selectors.  The dictionaries given to                  *)
(* unwrap_singleton_values hold strings, numbers, None, lists and a list   *)
(* of a list.                                                              *)
(***************************************************************************)
IntLists(S) == {PyList(l) : l \in ListsUpTo({PyInt(x) : x \in S}, MaxListLen)}

TimeParams ==
    {DictOf(r) : r \in
        [hours  : IntLists({5, 23}) \cup {Absent},
         days   : IntLists({1, 31}) \cup {Absent},
         months : IntLists({2, 12}) \cup {Absent},
         years  : IntLists({950, 2000}) \cup {Absent},
         variable_names : {PyList(<<PyStr("2m_temperature")>>), Absent},
         spatial_res : {PyInt(1), Absent}]}

StrLists == {PyList(l) : l \in ListsUpTo({PyStr("05"), PyStr("12")}, MaxListLen)}

RequestParams ==
    {DictOf(r) : r \in
        [variable : StrLists \cup {PyStr("all"), Absent},
         month    : StrLists \cup {Absent},
         format   : {PyStr("netcdf"), PyList(<<PyStr("netcdf")>>), None, Absent},
         grid     : {PyList(<<PyInt(1), PyInt(1)>>),
                     PyList(<<PyList(<<PyInt(1), PyInt(1)>>)>>),
                     PyInt(1), Absent}]}

InitFmt ==
    /\ \/ call \in [op : {"transform_time_params"}, params : TimeParams]
       \/ call \in [op : {"unwrap_singleton_values"}, dictionary : RequestParams]
    /\ pc = "call"
    /\ result = NoResult
    /\ events = <<>>
    /\ frame = <<>>
    /\ opener = <<>>
    /\ fs = {}
    /\ now = NowDefault

TransformTimeParams ==
    /\ pc = "call"
    /\ call.op = "transform_time_params"
    /\ result' = Returned(transform_time_params(call.params))
    /\ pc' = "done"
    /\ UNCHANGED <<call, events, now, frame, opener, fs>>

UnwrapSingletonValues ==
    /\ pc = "call"
    /\ call.op = "unwrap_singleton_values"
    /\ result' = Returned(unwrap_singleton_values(call.dictionary))
    /\ pc' = "done"
    /\ UNCHANGED <<call, events, now, frame, opener, fs>>

NextFmt == TransformTimeParams \/ UnwrapSingletonValues

SpecFmt == InitFmt /\ [][NextFmt]_vars

(***************************************************************************)
(* Properties of convert_time_range (specification SpecTime).              *)
(***************************************************************************)
ConvertDone == pc = "done" /\ call.op = "convert_time_range"

\* The end points of the call's range, as instants.
StartMinutes == Minutes(call.time_range[1])

EndMinutes ==
    Minutes(IF call.time_range[2] = None THEN now ELSE call.time_range[2])

\* A valid time range: a pair with start <= end.
ValidRange == Len(call.time_range) = 2 /\ StartMinutes <= EndMinutes

\* The calendar days and the clock hours a range of instants touches.
DaysTouched(s, e) == (s \div MinutesPerDay) .. (e \div MinutesPerDay)

HoursTouched(s, e) == (s \div 60) .. (e \div 60)

HoursOfDayTouched(s, e) ==
    {h \in 0 .. 23 : \E b \in HoursTouched(s, e) : FromMinutes(b * 60).hour = h}

MonthsTouched(s, e) == {FromOrdinal[n].month : n \in DaysTouched(s, e)}

\* C1: covering.  For every valid time range, every instant of the range
\* has its hour, day of month, month and year in the corresponding list
\* convert_time_range returns.
C1_Covering ==
    (ConvertDone /\ ValidRange) =>
        /\ result.status = "returned"
        /\ LET hours  == ListItems(result.value.hours)
               days   == ListItems(result.value.days)
               months == ListItems(result.value.months)
               years  == ListItems(result.value.years)
           IN  /\ \A n \in DaysTouched(StartMinutes, EndMinutes) :
                      /\ FromOrdinal[n].day \in days
                      /\ FromOrdinal[n].month \in months
                      /\ FromOrdinal[n].year \in years
               /\ HoursOfDayTouched(StartMinutes, EndMinutes) \subseteq hours

\* A valid range of more than 100 days (the daily recurrence is cut) that
\* starts and ends in the same year, converted.
C1_Witness ==
    /\ ConvertDone /\ ValidRange
    /\ EndMinutes - StartMinutes > DayMaxDelta
    /\ call.time_range[1].year = call.time_range[2].year
    /\ result.status = "returned"
    /\ Len(result.value.days) = 31
    /\ Len(result.value.months) < 12

\* C2: full-span widening.  A valid range of at least 24 hours yields all
\* 24 hours and one of at least a year (365 days) all 12 months; whatever
\* its length, the hours (months) returned are exactly those the range
\* touches.
C2_FullSpanWidening ==
    (ConvertDone /\ ValidRange) =>
        /\ result.status = "returned"
        /\ (EndMinutes - StartMinutes >= 24 * 60)
              => result.value.hours = RangeList(0, 24)
        /\ (EndMinutes - StartMinutes >= 365 * MinutesPerDay)
              => result.value.months = RangeList(1, 13)
        /\ ListItems(result.value.hours)
              = HoursOfDayTouched(StartMinutes, EndMinutes)
        /\ ListItems(result.value.months)
              = MonthsTouched(StartMinutes, EndMinutes)

\* A range of less than 24 hours that crosses midnight, and so returns the
\* hours of two days without returning them all.
C2_Witness ==
    /\ ConvertDone /\ ValidRange
    /\ EndMinutes - StartMinutes < 24 * 60
    /\ call.time_range[1].day # call.time_range[2].day
    /\ result.status = "returned"
    /\ 0 \in ListItems(result.value.hours)
    /\ 23 \in ListItems(result.value.hours)
    /\ Len(result.value.hours) < 24

\* The year-crossing range 2000-12-31 to 2002-01-02.
YearCrossingRange ==
    <<DateTime(2000, 12, 31, 0, 0), DateTime(2002, 1, 2, 0, 0)>>

\* C3 as stated: the range 2000-12-31 to 2002-01-02 yields months {1, 12}
\* and years {2000, 2001, 2002}.
C3_MonthsJanDec ==
    (ConvertDone /\ call.time_range = YearCrossingRange) =>
        /\ result.status = "returned"
        /\ result.value.months = <<1, 12>>
        /\ result.value.years = <<2000, 2001, 2002>>

\* C3 amended: the range 2000-12-31 to 2002-01-02 yields all twelve months
\* and years {2000, 2001, 2002}: the request covers all of 2000-2002.
C3_AllMonths ==
    (ConvertDone /\ call.time_range = YearCrossingRange) =>
        /\ result.status = "returned"
        /\ result.value.months = RangeList(1, 13)
        /\ result.value.years = <<2000, 2001, 2002>>

C3_Witness ==
    /\ ConvertDone
    /\ call.time_range = YearCrossingRange
    /\ result.status = "returned"

\* C4: convert_time_range raises ValueError, and returns no selector, for
\* every time_range whose length is not 2.
C4_InvalidLength ==
    (ConvertDone /\ Len(call.time_range) # 2) => result = Raised("ValueError")

\* A list of three elements, rejected.
C4_Witness ==
    /\ ConvertDone
    /\ Len(call.time_range) = 3
    /\ result.status = "raised"

(***************************************************************************)
(* Properties of the formatter (specification SpecFmt).                    *)
(***************************************************************************)
\* The key the formatter gives a selector, and the number of digits.
CdsKey == [hours |-> "time", days |-> "day", months |-> "month",
           years |-> "year"]

CdsWidth == [hours |-> 2, days |-> 2, months |-> 2, years |-> 4]

RECURSIVE Pow10(_)
Pow10(n) == IF n = 0 THEN 1 ELSE 10 * Pow10(n - 1)

\* The `width' digits of x, most significant first.
RECURSIVE FixedDigits(_, _)
FixedDigits(x, width) ==
    IF width = 0 THEN ""
    ELSE Digit[((x \div Pow10(width - 1)) % 10) + 1]
            \o FixedDigits(x, width - 1)

C6_SingletonUnwrap ==
    (pc = "done" /\ call.op = "unwrap_singleton_values") =>
        LET given == call.dictionary
            out == result.value
        IN  /\ result.status = "returned"
            /\ DOMAIN out = DOMAIN given
            /\ \A k \in DOMAIN given :
                  IF given[k].kind = "list" /\ Len(given[k].val) = 1
                  THEN out[k] = given[k].val[1]
                  ELSE out[k] = given[k]

\* A dictionary with a singleton list, a longer list, an empty list and a
\* string, unwrapped.
C6_Witness ==
    /\ pc = "done" /\ call.op = "unwrap_singleton_values"
    /\ DOMAIN call.dictionary = {"variable", "month", "format", "grid"}
    /\ call.dictionary.variable = PyList(<<PyStr("05")>>)
    /\ call.dictionary.month = PyList(<<PyStr("05"), PyStr("12")>>)
    /\ call.dictionary.grid = PyList(<<PyList(<<PyInt(1), PyInt(1)>>)>>)
    /\ result.status = "returned"
    /\ result.value.variable = PyStr("05")
    /\ result.value.month = call.dictionary.month


(***************************************************************************)
(* Data identifiers.  An identifier is held as the sequence of its         *)
(* ':'-separated components, the value of data_id.split(':'); it contains  *)
(* a ':' when it has more than one component.                              *)
(***************************************************************************)
HasColon(data_id) == Len(data_id) > 1

\* Coordinates and resolutions are counted in units of 1/10000 degree.
DegreeScale == 10000

Degrees(x) == x * DegreeScale

(***************************************************************************)
(* ERA5DatasetHandler._read_dataset_info: the dataset tables (two of the   *)
(* monthly-means datasets, two variables each), the blacklist and the      *)
(* list of the valid identifiers made of them.                             *)
(***************************************************************************)
ERA5_dataset_dicts ==
    ("reanalysis-era5-land-monthly-means" :>
        [product_types |-> <<"monthly_averaged_reanalysis",
                             "monthly_averaged_reanalysis_by_hour_of_day">>,
         variables   |-> <<"2m_temperature", "10m_u_component_of_wind">>,
         bbox        |-> <<Degrees(-180), Degrees(-90), Degrees(180), Degrees(90)>>,
         spatial_res |-> 1000,
         time_period |-> [number |-> 1, unit |-> "M"]])
    @@ ("reanalysis-era5-single-levels-monthly-means" :>
        [product_types |-> <<"monthly_averaged_reanalysis",
                             "monthly_averaged_ensemble_members_by_hour_of_day",
                             "monthly_averaged_reanalysis_by_hour_of_day">>,
         variables   |-> <<"2m_temperature", "10m_u_component_of_wind">>,
         bbox        |-> <<Degrees(-180), Degrees(-90), Degrees(180), Degrees(90)>>,
         spatial_res |-> 2500,
         time_period |-> [number |-> 1, unit |-> "M"]])

ERA5_blacklist ==
    {<<"reanalysis-era5-land-monthly-means",
       "monthly_averaged_reanalysis_by_hour_of_day">>,
     <<"reanalysis-era5-single-levels-monthly-means",
       "monthly_averaged_ensemble_members_by_hour_of_day">>,
     <<"reanalysis-era5-single-levels-monthly-means",
       "monthly_averaged_reanalysis_by_hour_of_day">>}

ERA5_valid_data_ids ==
    UNION {LET product_types == ERA5_dataset_dicts[ds_id].product_types
           IN  IF Len(product_types) = 0
               THEN {<<ds_id>>} \ ERA5_blacklist
               ELSE {<<ds_id, product_types[i]>> : i \in DOMAIN product_types}
                        \ ERA5_blacklist
           : ds_id \in DOMAIN ERA5_dataset_dicts}

(***************************************************************************)
(* The class tables of SoilMoistureHandler and of the two sea-ice          *)
(* thickness handlers (SeaiceHandler of datasets/seaice.py and             *)
(* SeaIceThicknessHandler of datasets/satellite_sea_ice_thickness.py,      *)
(* whose tables hold the same identifiers and missions).                   *)
(***************************************************************************)
SoilMoisture_data_id_map ==
    {<<"satellite-soil-moisture", spec, aggregation>> :
        spec \in {"saturation", "volumetric"},
        aggregation \in {"daily", "10-day", "monthly"}}

SoilMoisture_var_map ==
    [saturation |-> [variables |-> <<"soil_moisture_saturation">>,
                     sensor_types |-> <<"active">>],
     volumetric |-> [variables |-> <<"volumetric_surface_soil_moisture">>,
                     sensor_types |-> <<"combined_passive_and_active",
                                        "passive">>]]

SoilMoisture_aggregation_map ==
    ("daily" :> [number |-> 1, unit |-> "D"])
    @@ ("10-day" :> [number |-> 10, unit |-> "D"])
    @@ ("monthly" :> [number |-> 1, unit |-> "M"])

SoilMoisture_cds_aggregation ==
    ("daily" :> "day_average") @@ ("10-day" :> "10_day_average")
    @@ ("monthly" :> "month_average")

SeaIce_data_id_map ==
    {<<"satellite-sea-ice-thickness", "envisat">>,
     <<"satellite-sea-ice-thickness", "cryosat-2">>}

SeaIce_var_map ==
    ("envisat" :> [cdr_types |-> <<"cdr">>])
    @@ ("cryosat-2" :> [cdr_types |-> <<"cdr", "icdr">>])

(***************************************************************************)
(* The handler classes and get_supported_data_ids of each.                 *)
(***************************************************************************)
HandlerClasses ==
    {"ERA5DatasetHandler", "SoilMoistureHandler", "SeaiceHandler",
     "SeaIceThicknessHandler"}

get_supported_data_ids(handler) ==
    CASE handler = "ERA5DatasetHandler" -> ERA5_valid_data_ids
      [] handler = "SoilMoistureHandler" -> SoilMoisture_data_id_map
      [] handler = "SeaiceHandler" -> SeaIce_data_id_map
      [] handler = "SeaIceThicknessHandler" -> SeaIce_data_id_map


(***************************************************************************)
(* get_open_data_params_schema of each handler class.  A schema is the     *)
(* record of its properties (each with the constraint its JSON schema      *)
(* states), its required properties and the defaults of its properties;    *)
(* every handler's schema has additional_properties=False.                 *)
(***************************************************************************)
SeqItems(s) == {s[i] : i \in DOMAIN s}

JsonObjectSchema(properties, required, defaults) ==
    [properties |-> properties, required |-> required, defaults |-> defaults,
     additional_properties |-> FALSE]

JsonStringArray(enum, nullable) ==
    [type |-> "array", enum |-> enum, nullable |-> nullable]

JsonString(enum) == [type |-> "string", enum |-> enum]

JsonNumber(minimum, maximum) ==
    [type |-> "number", minimum |-> minimum, maximum |-> maximum]

JsonBBox(bbox) == [type |-> "bbox", bbox |-> bbox]

JsonDateRange == [type |-> "date_range"]

ERA5_get_open_data_params_schema(data_id) ==
    LET dataset_id == data_id[1]
    IN  IF dataset_id \notin DOMAIN ERA5_dataset_dicts THEN Raised("KeyError")
        ELSE LET ds_info == ERA5_dataset_dicts[dataset_id]
             IN  Returned(JsonObjectSchema(
                    [variable_names |->
                        JsonStringArray(SeqItems(ds_info.variables), TRUE),
                     bbox |-> JsonBBox(ds_info.bbox),
                     spatial_res |->
                        JsonNumber(ds_info.spatial_res, Degrees(10)),
                     time_range |-> JsonDateRange],
                    {"variable_names", "bbox", "time_range"},
                    <<>>))

SoilMoisture_get_open_data_params_schema(data_id) ==
    IF Len(data_id) # 3 THEN Raised("ValueError")
    ELSE IF data_id[2] \notin DOMAIN SoilMoisture_var_map
    THEN Raised("KeyError")
    ELSE LET variable_properties == SoilMoisture_var_map[data_id[2]]
             params ==
                [time_range |-> JsonDateRange,
                 variable_names |->
                    JsonStringArray(SeqItems(variable_properties.variables),
                                    FALSE),
                 type_of_record |-> JsonString({"cdr", "icdr"}),
                 version |-> JsonString({"v201706.0.0", "v201812.0.0",
                                         "v201812.0.1", "v201912.0.0"})]
             defaults ==
                [variable_names |->
                    PyList(<<PyStr(variable_properties.variables[1])>>),
                 type_of_record |-> PyStr("cdr"),
                 version |-> PyStr("v201912.0.0")]
         IN  IF Len(variable_properties.sensor_types) > 1
             THEN Returned(JsonObjectSchema(
                    params @@ [type_of_sensor |-> JsonString(
                        SeqItems(variable_properties.sensor_types))],
                    {"time_range"},
                    defaults @@ [type_of_sensor |->
                        PyStr(variable_properties.sensor_types[1])]))
             ELSE Returned(JsonObjectSchema(params, {"time_range"}, defaults))

\* The schema both sea-ice thickness handlers build for a mission.
SeaIce_schema(mission_spec) ==
    IF mission_spec \notin DOMAIN SeaIce_var_map THEN Raised("KeyError")
    ELSE LET variable_properties == SeaIce_var_map[mission_spec]
         IN  Returned(JsonObjectSchema(
                [time_range |-> JsonDateRange,
                 variable_names |-> JsonStringArray({"all"}, FALSE),
                 type_of_record |->
                    JsonString(SeqItems(variable_properties.cdr_types)),
                 version |-> JsonString({"2.0", "1.0"})],
                {"time_range"},
                [variable_names |-> PyList(<<PyStr("all")>>),
                 type_of_record |-> PyStr("cdr"),
                 version |-> PyStr("2.0")]))

\* datasets/seaice.py unpacks the identifier into three components.
Seaice_get_open_data_params_schema(data_id) ==
    IF Len(data_id) # 3 THEN Raised("ValueError")
    ELSE SeaIce_schema(data_id[2])

\* datasets/satellite_sea_ice_thickness.py unpacks it into two.
SeaIceThickness_get_open_data_params_schema(data_id) ==
    IF Len(data_id) # 2 THEN Raised("ValueError")
    ELSE SeaIce_schema(data_id[2])

get_open_data_params_schema(handler, data_id) ==
    CASE handler = "ERA5DatasetHandler" ->
            ERA5_get_open_data_params_schema(data_id)
      [] handler = "SoilMoistureHandler" ->
            SoilMoisture_get_open_data_params_schema(data_id)
      [] handler = "SeaiceHandler" ->
            Seaice_get_open_data_params_schema(data_id)
      [] handler = "SeaIceThicknessHandler" ->
            SeaIceThickness_get_open_data_params_schema(data_id)

(***************************************************************************)
(* describe_data of each handler class: the descriptor's bounding box,     *)
(* resolution, time period (None when the handler gives none) and          *)
(* open-parameter schema, or the exception raised on the way.              *)
(***************************************************************************)
DatasetDescriptor(data_id, bbox, spatial_res, time_period, schema) ==
    IF schema.status = "raised" THEN schema
    ELSE Returned([data_id |-> data_id, bbox |-> bbox,
                   spatial_res |-> spatial_res, time_period |-> time_period,
                   open_params_schema |-> schema.value])

ERA5_describe_data(data_id) ==
    IF data_id[1] \notin DOMAIN ERA5_dataset_dicts THEN Raised("KeyError")
    ELSE LET ds_info == ERA5_dataset_dicts[data_id[1]]
         IN  DatasetDescriptor(data_id, ds_info.bbox, ds_info.spatial_res,
                               ds_info.time_period,
                               ERA5_get_open_data_params_schema(data_id))

SoilMoisture_describe_data(data_id) ==
    IF Len(data_id) # 3 THEN Raised("ValueError")
    ELSE IF data_id[2] \notin {"saturation", "volumetric"}
    THEN Raised("KeyError")
    ELSE IF data_id[3] \notin DOMAIN SoilMoisture_aggregation_map
    THEN Raised("KeyError")
    ELSE DatasetDescriptor(
            data_id,
            <<Degrees(-180), Degrees(-90), Degrees(180), Degrees(90)>>,
            2500, SoilMoisture_aggregation_map[data_id[3]],
            SoilMoisture_get_open_data_params_schema(data_id))

Seaice_describe_data(data_id) ==
    IF Len(data_id) # 2 THEN Raised("ValueError")
    ELSE DatasetDescriptor(
            data_id, <<Degrees(-180), 166239, Degrees(180), Degrees(90)>>,
            Degrees(25), None, Seaice_get_open_data_params_schema(data_id))

SeaIceThickness_describe_data(data_id) ==
    IF Len(data_id) # 2 THEN Raised("ValueError")
    ELSE IF data_id[2] \notin DOMAIN SeaIce_var_map THEN Raised("KeyError")
    ELSE DatasetDescriptor(
            data_id, <<Degrees(-180), 166239, Degrees(180), Degrees(90)>>,
            Degrees(25), None,
            SeaIceThickness_get_open_data_params_schema(data_id))

describe_data(handler, data_id) ==
    CASE handler = "ERA5DatasetHandler" -> ERA5_describe_data(data_id)
      [] handler = "SoilMoistureHandler" -> SoilMoisture_describe_data(data_id)
      [] handler = "SeaiceHandler" -> Seaice_describe_data(data_id)
      [] handler = "SeaIceThicknessHandler" ->
            SeaIceThickness_describe_data(data_id)


(***************************************************************************)
(* transform_params of each handler class: the dataset name and the        *)
(* request dictionary, or the exception raised on the way.  The open       *)
(* parameters are a dictionary whose time_range is a list of datetimes     *)
(* (or None for an open end), as convert_time_range takes it.              *)
(***************************************************************************)
\* dict.update: the items of `other' replace those of `dictionary'.
Update(dictionary, other) == other @@ dictionary

\* dict.get with a default.
Get(dictionary, key, default) ==
    IF key \in DOMAIN dictionary THEN dictionary[key] ELSE default

\* The lists of integers convert_time_range returns, as Python values.
IntList(s) == PyList([i \in DOMAIN s |-> PyInt(s[i])])

TimeLists(converted) == [k \in DOMAIN converted |-> IntList(converted[k])]

StrList(s) == PyList([i \in DOMAIN s |-> PyStr(s[i])])

\* The request's format key, by the API version of the handler.  The area
\* is cropped by resolution / 2, which is whole in the units of the
\* coordinates for the resolutions of the tables and of the calls.
ERA5_format_key(api_version) == IF api_version = 1 THEN "format" ELSE "data_format"

\* The time parameters derived from time_range are put into the request,
\* then those given explicitly.
combine_time_params_RangeWins(params_combined, from_range, explicit) ==
    Update(Update(params_combined, explicit), from_range)

combine_time_params(params_combined, from_range, explicit) ==
    Update(Update(params_combined, from_range), explicit)

ERA5_transform_params(plugin_params, data_id, api_version, dt_now) ==
    IF Len(data_id) > 2 THEN Raised("ValueError")
    ELSE IF "bbox" \notin DOMAIN plugin_params THEN Raised("KeyError")
    ELSE IF /\ "spatial_res" \notin DOMAIN plugin_params
            /\ data_id[1] \notin DOMAIN ERA5_dataset_dicts
    THEN Raised("KeyError")
    ELSE IF "variable_names" \notin DOMAIN plugin_params THEN Raised("KeyError")
    ELSE IF plugin_params.variable_names = PyList(<<>>) THEN Raised("ValueError")
    ELSE IF /\ plugin_params.variable_names = None
            /\ data_id[1] \notin DOMAIN ERA5_dataset_dicts
    THEN Raised("KeyError")
    ELSE IF "time_range" \notin DOMAIN plugin_params THEN Raised("KeyError")
    ELSE
    LET dataset_name == data_id[1]
        product_type == IF HasColon(data_id) THEN PyStr(data_id[2]) ELSE None
        bbox == plugin_params.bbox.val
        x1 == bbox[1].val
        y1 == bbox[2].val
        x2 == bbox[3].val
        y2 == bbox[4].val
        resolution ==
            IF "spatial_res" \in DOMAIN plugin_params
            THEN plugin_params.spatial_res.val
            ELSE ERA5_dataset_dicts[data_id[1]].spatial_res
        variable_names ==
            IF plugin_params.variable_names = None
            THEN StrList(ERA5_dataset_dicts[dataset_name].variables)
            ELSE plugin_params.variable_names
        base ==
            ("variable" :> variable_names)
            @@ ("area" :> PyList(<<PyInt(y2 - resolution \div 2),
                                   PyInt(x1 + resolution \div 2),
                                   PyInt(y1 + resolution \div 2),
                                   PyInt(x2 - resolution \div 2)>>))
            @@ (ERA5_format_key(api_version) :> PyStr("netcdf"))
        with_grid ==
            IF "spatial_res" \in DOMAIN plugin_params
            THEN Update(base, "grid" :> PyList(<<PyInt(resolution),
                                                 PyInt(resolution)>>))
            ELSE base
        with_product_type ==
            IF product_type # None
            THEN Update(with_grid, "product_type" :> product_type)
            ELSE with_grid
        converted == convert_time_range(plugin_params.time_range.val, dt_now)
    IN  IF converted.status = "raised" THEN converted
        ELSE LET time_params_from_range ==
                     transform_time_params(TimeLists(converted.value))
                 time_params_explicit == transform_time_params(plugin_params)
                 params_combined ==
                     combine_time_params(with_product_type,
                                         time_params_from_range,
                                         time_params_explicit)
             IN  Returned(<<dataset_name,
                            unwrap_singleton_values(params_combined)>>)

SoilMoisture_transform_params(opener_params, data_id, dt_now) ==
    IF Len(data_id) # 3 THEN Raised("ValueError")
    ELSE IF data_id[2] \notin DOMAIN SoilMoisture_var_map
    THEN Raised("KeyError")
    ELSE IF data_id[3] \notin DOMAIN SoilMoisture_cds_aggregation
    THEN Raised("KeyError")
    ELSE IF "type_of_record" \notin DOMAIN opener_params THEN Raised("KeyError")
    ELSE IF "version" \notin DOMAIN opener_params THEN Raised("KeyError")
    ELSE IF "time_range" \notin DOMAIN opener_params THEN Raised("KeyError")
    ELSE
    LET variable_properties == SoilMoisture_var_map[data_id[2]]
        cds_params ==
            [variable |-> PyStr(variable_properties.variables[1]),
             type_of_sensor |->
                Get(opener_params, "type_of_sensor",
                    PyStr(variable_properties.sensor_types[1])),
             time_aggregation |-> PyStr(SoilMoisture_cds_aggregation[data_id[3]]),
             type_of_record |-> opener_params.type_of_record,
             version |-> opener_params.version,
             format |-> PyStr("tgz")]
        converted == convert_time_range(opener_params.time_range.val, dt_now)
    IN  IF converted.status = "raised" THEN converted
        ELSE Returned(<<"satellite-soil-moisture",
                        unwrap_singleton_values(
                            Update(cds_params,
                                   transform_time_params(
                                       TimeLists(converted.value))))>>)

\* str.replace('.', '_') on the version strings of the sea-ice schema.
ReplaceDots(version) ==
    IF version = PyStr("2.0") THEN PyStr("2_0")
    ELSE IF version = PyStr("1.0") THEN PyStr("1_0")
    ELSE version

SeaIce_unsupported_months == {"05", "06", "07", "08", "09"}

SeaIce_supported_All(month) == month

\* The month selector without the unsupported months.
SeaIce_supported(month) ==
    LET Supported(m) == m.val \notin SeaIce_unsupported_months
    IN  PyList(SelectSeq(month.val, Supported))

\* The time selectors both sea-ice handlers send: no time, no day, and
\* the supported months only.
SeaIce_time_selectors(converted) ==
    LET time_selectors == transform_time_params(TimeLists(converted))
    IN  [k \in DOMAIN time_selectors \ {"time", "day"} |->
            IF k = "month" THEN SeaIce_supported(time_selectors[k])
            ELSE time_selectors[k]]

\* with_type_of_record: datasets/seaice.py sends the record type under
\* type_of_record too.
SeaIce_transform_params(opener_params, data_id, dt_now, with_type_of_record) ==
    IF Len(data_id) # 2 THEN Raised("ValueError")
    ELSE IF data_id[2] \notin DOMAIN SeaIce_var_map THEN Raised("KeyError")
    ELSE IF "time_range" \notin DOMAIN opener_params THEN Raised("KeyError")
    ELSE
    LET mission == data_id[2]
        cdr_type == Get(opener_params, "type_of_record",
                        PyStr(SeaIce_var_map[mission].cdr_types[1]))
        common ==
            [satellite |-> PyStr(mission),
             cdr_type |-> cdr_type,
             version |-> ReplaceDots(Get(opener_params, "version", PyStr("2_0"))),
             variable |-> PyStr("all"),
             format |-> PyStr("tgz")]
        cds_params ==
            IF with_type_of_record
            THEN Update(common, [type_of_record |-> cdr_type])
            ELSE common
        converted == convert_time_range(opener_params.time_range.val, dt_now)
    IN  IF converted.status = "raised" THEN converted
        ELSE Returned(<<"satellite-sea-ice-thickness",
                        unwrap_singleton_values(
                            Update(cds_params,
                                   SeaIce_time_selectors(converted.value)))>>)

transform_params(handler, open_params, data_id, api_version, dt_now) ==
    CASE handler = "ERA5DatasetHandler" ->
            ERA5_transform_params(open_params, data_id, api_version, dt_now)
      [] handler = "SoilMoistureHandler" ->
            SoilMoisture_transform_params(open_params, data_id, dt_now)
      [] handler = "SeaiceHandler" ->
            SeaIce_transform_params(open_params, data_id, dt_now, TRUE)
      [] handler = "SeaIceThicknessHandler" ->
            SeaIce_transform_params(open_params, data_id, dt_now, FALSE)


(***************************************************************************)
(* The calls of the handlers the model makes.  The identifiers are the     *)
(* supported ones of every handler, the blacklisted ones, and identifiers  *)
(* no handler supports: an unknown name, a known dataset name alone or     *)
(* with an unknown suffix, and known components with an unknown or an      *)
(* extra one.                                                              *)
(***************************************************************************)
SupportedDataIds ==
    UNION {get_supported_data_ids(handler) : handler \in HandlerClasses}

UnsupportedDataIds ==
    ERA5_blacklist
    \cup {<<"this-data-id-does-not-exist">>,
          <<"reanalysis-era5-land-monthly-means">>,
          <<"reanalysis-era5-land-monthly-means", "unknown">>,
          <<"reanalysis-era5-land-monthly-means",
            "monthly_averaged_reanalysis", "extra">>,
          <<"satellite-soil-moisture", "volumetric">>,
          <<"satellite-soil-moisture", "volumetric", "weekly">>,
          <<"satellite-soil-moisture", "unknown", "daily">>,
          <<"unknown", "saturation", "daily">>,
          <<"satellite-sea-ice-thickness", "unknown">>,
          <<"satellite-sea-ice-thickness", "envisat", "extra">>}

DataIds == SupportedDataIds \cup UnsupportedDataIds

\* Time ranges: a year, two summer months, three hours of a day, an open
\* end, and a list that is no pair.
TimeRanges ==
    {PyList(<<DateTime(2000, 1, 1, 0, 0), DateTime(2000, 12, 31, 0, 0)>>),
     PyList(<<DateTime(2001, 5, 10, 0, 0), DateTime(2001, 6, 20, 0, 0)>>),
     PyList(<<DateTime(2000, 2, 20, 5, 0), DateTime(2000, 2, 20, 8, 0)>>),
     PyList(<<DateTime(2001, 11, 1, 0, 0), None>>),
     PyList(<<DateTime(2000, 1, 1, 0, 0)>>)}

BBoxes == {PyList(<<PyInt(Degrees(-45)), PyInt(Degrees(0)),
                    PyInt(Degrees(45)), PyInt(Degrees(60))>>)}

\* Open parameters in the shape of each handler's schema; every handler
\* is called with each of them.
ERA5OpenParams ==
    {DictOf(r) : r \in
        [variable_names : {Absent, None, PyList(<<>>),
                           StrList(<<"2m_temperature">>),
                           StrList(<<"2m_temperature",
                                     "10m_u_component_of_wind">>)},
         bbox : BBoxes \cup {Absent},
         spatial_res : {PyInt(2500), Absent},
         time_range : TimeRanges,
         months : {IntList(<<3>>), Absent}]}

SoilMoistureOpenParams ==
    {DictOf(r) : r \in
        [variable_names : {Absent, PyList(<<>>),
                           StrList(<<"volumetric_surface_soil_moisture">>)},
         type_of_record : {PyStr("cdr"), Absent},
         version : {PyStr("v201912.0.0"), Absent},
         type_of_sensor : {PyStr("passive"), Absent},
         time_range : TimeRanges]}

SeaIceOpenParams ==
    {DictOf(r) : r \in
        [variable_names : {Absent, PyList(<<>>), StrList(<<"all">>)},
         type_of_record : {PyStr("cdr"), Absent},
         version : {PyStr("2.0"), PyStr("1.0"), Absent},
         time_range : TimeRanges]}

(***************************************************************************)
(* get_human_readable_data_id of each handler class: a lookup of the whole *)
(* identifier in the handler's table of titles, whose keys are the         *)
(* identifiers get_supported_data_ids lists.  The title is modelled by the *)
(* identifier it belongs to.                                               *)
(***************************************************************************)
get_human_readable_data_id(handler, data_id) ==
    IF data_id \in get_supported_data_ids(handler)
    THEN Returned([human_readable |-> data_id])
    ELSE Raised("KeyError")

OpenParams == ERA5OpenParams \cup SoilMoistureOpenParams \cup SeaIceOpenParams

ApiVersions(handler) == IF handler = "ERA5DatasetHandler" THEN {1, 2} ELSE {1}

HandlerCalls ==
    [op : {"get_open_data_params_schema", "describe_data",
           "get_human_readable_data_id"},
     handler : HandlerClasses, data_id : DataIds]
    \cup UNION {[op : {"transform_params"}, handler : {handler},
                 api_version : ApiVersions(handler),
                 data_id : DataIds, open_params : OpenParams] :
                    handler \in HandlerClasses}

InitHandler ==
    /\ call \in HandlerCalls
    /\ pc = "call"
    /\ result = NoResult
    /\ events = <<>>
    /\ frame = <<>>
    /\ opener = <<>>
    /\ fs = {}
    /\ now = NowDefault

HandlerGetOpenDataParamsSchema ==
    /\ pc = "call"
    /\ call.op = "get_open_data_params_schema"
    /\ result' = get_open_data_params_schema(call.handler, call.data_id)
    /\ pc' = "done"
    /\ UNCHANGED <<call, events, now, frame, opener, fs>>

HandlerDescribeData ==
    /\ pc = "call"
    /\ call.op = "describe_data"
    /\ result' = describe_data(call.handler, call.data_id)
    /\ pc' = "done"
    /\ UNCHANGED <<call, events, now, frame, opener, fs>>

HandlerGetHumanReadableDataId ==
    /\ pc = "call"
    /\ call.op = "get_human_readable_data_id"
    /\ result' = get_human_readable_data_id(call.handler, call.data_id)
    /\ pc' = "done"
    /\ UNCHANGED <<call, events, now, frame, opener, fs>>

HandlerTransformParams ==
    /\ pc = "call"
    /\ call.op = "transform_params"
    /\ result' = transform_params(call.handler, call.open_params, call.data_id,
                                  call.api_version, now)
    /\ pc' = "done"
    /\ UNCHANGED <<call, events, now, frame, opener, fs>>

NextHandler ==
    \/ HandlerGetOpenDataParamsSchema
    \/ HandlerDescribeData
    \/ HandlerGetHumanReadableDataId
    \/ HandlerTransformParams

SpecHandler == InitHandler /\ [][NextHandler]_vars


(***************************************************************************)
(* Properties of the handlers (specification SpecHandler).                 *)
(***************************************************************************)
HandlerDone(op) == pc = "done" /\ call.op = op

\* C9: every handler's get_open_data_params_schema(data_id) fails (raises)
\* for every data_id that is not in that handler's get_supported_data_ids();
\* it never returns a schema for such an id.
C9_SchemaRejectsUnsupported ==
    (/\ HandlerDone("get_open_data_params_schema")
     /\ call.data_id \notin get_supported_data_ids(call.handler))
        => result.status = "raised"

\* C10: every handler's transform_params raises whenever the open
\* parameters carry variable_names equal to the empty list, and returns no
\* request in that case.
C10_EmptyVariablesRejected ==
    (/\ HandlerDone("transform_params")
     /\ "variable_names" \in DOMAIN call.open_params
     /\ call.open_params.variable_names = PyList(<<>>))
        => result.status = "raised"


(***************************************************************************)
(* The store.  CDSDataOpener.__init__ registers a handler of each of three *)
(* classes, in this order; _register_dataset_handler maps each supported   *)
(* identifier to the handler, a later handler replacing an earlier one.    *)
(* The third is the handler class of datasets/seaice.py, the module the    *)
(* constructor imports it from (under the name SeaIceHandler; the module   *)
(* spells it SeaiceHandler).                                               *)
(***************************************************************************)
RegisteredHandlers ==
    <<"ERA5DatasetHandler", "SoilMoistureHandler", "SeaiceHandler">>

Max(S) == CHOOSE x \in S : \A y \in S : y <= x

handler_registry_FirstHandler ==
    [data_id \in UNION {get_supported_data_ids(RegisteredHandlers[i]) :
                            i \in DOMAIN RegisteredHandlers}
        |-> RegisteredHandlers[1]]

handler_registry ==
    LET Registering(data_id) ==
            {i \in DOMAIN RegisteredHandlers :
                data_id \in get_supported_data_ids(RegisteredHandlers[i])}
        registered ==
            UNION {get_supported_data_ids(RegisteredHandlers[i]) :
                        i \in DOMAIN RegisteredHandlers}
    IN  [data_id \in registered |->
            RegisteredHandlers[Max(Registering(data_id))]]

CDS_DATA_OPENER_ID == PyStr("dataset:netcdf:cds")

\* The data_id None (no identifier given): the sequence of no components,
\* which is the split of no string.
NoDataId == <<>>

\* _validate_data_id: TRUE when it raises ValueError.
UnknownDataId_Never(data_id, allow_none) == FALSE

UnknownDataId(data_id, allow_none) ==
    IF data_id = NoDataId /\ allow_none THEN FALSE
    ELSE data_id \notin DOMAIN handler_registry

\* _assert_valid_opener_id: TRUE when it raises DataStoreError.
InvalidOpenerId(opener_id) ==
    opener_id # None /\ opener_id # CDS_DATA_OPENER_ID

\* _is_data_type_satisfied; "dataset" is DATASET_TYPE.
is_data_type_satisfied(data_type) ==
    IF data_type = None THEN TRUE ELSE data_type = PyStr("dataset")

\* The method of the registered handler of data_id is reached; its name
\* joins the events.
HandlerEvent(method) == "handler." \o method

(***************************************************************************)
(* CDSDataOpener._get_default_open_params_schema, the schema for no        *)
(* identifier: no additional-properties restriction, no defaults.          *)
(***************************************************************************)
get_default_open_params_schema ==
    [properties |->
        [dataset_name |-> JsonString(DOMAIN handler_registry),
         variable_names |-> [type |-> "array"],
         crs |-> [type |-> "string"],
         bbox |-> JsonBBox(<<Degrees(-180), Degrees(-90),
                             Degrees(180), Degrees(90)>>),
         spatial_res |-> [type |-> "number"],
         time_range |-> JsonDateRange,
         time_period |-> [type |-> "string"]],
     required |-> {"variable_names", "bbox", "spatial_res", "time_range"},
     defaults |-> <<>>,
     additional_properties |-> TRUE]

(***************************************************************************)
(* CDSDataOpener.get_open_data_params_schema and                           *)
(* CDSDataStore.get_open_data_params_schema: the outcome and the events.   *)
(***************************************************************************)
Outcome(res, evs) == [result |-> res, events |-> evs]

Opener_get_open_data_params_schema(data_id) ==
    IF UnknownDataId(data_id, TRUE) THEN Outcome(Raised("ValueError"), <<>>)
    ELSE IF data_id = NoDataId
    THEN Outcome(Returned(get_default_open_params_schema), <<>>)
    ELSE IF data_id \notin DOMAIN handler_registry
    THEN Outcome(Raised("KeyError"), <<>>)
    ELSE Outcome(get_open_data_params_schema(handler_registry[data_id], data_id),
                 <<HandlerEvent("get_open_data_params_schema")>>)

Store_get_open_data_params_schema(data_id, opener_id) ==
    IF InvalidOpenerId(opener_id) THEN Outcome(Raised("DataStoreError"), <<>>)
    ELSE IF UnknownDataId(data_id, TRUE)
    THEN Outcome(Raised("ValueError"), <<>>)
    ELSE Opener_get_open_data_params_schema(data_id)

(***************************************************************************)
(* CDSDataStore.describe_data.                                             *)
(***************************************************************************)
Store_describe_data(data_id, data_type) ==
    IF UnknownDataId(data_id, FALSE) THEN Outcome(Raised("ValueError"), <<>>)
    ELSE IF ~is_data_type_satisfied(data_type)
    THEN Outcome(Raised("DataStoreError"), <<>>)
    ELSE IF data_id \notin DOMAIN handler_registry
    THEN Outcome(Raised("KeyError"), <<>>)
    ELSE Outcome(describe_data(handler_registry[data_id], data_id),
                 <<HandlerEvent("describe_data")>>)


(***************************************************************************)
(* JsonObjectSchema.validate_instance, for the constraints the handlers'   *)
(* schemas state: TRUE when the open parameters conform.  A list schema    *)
(* whose items are given by position (bbox, time_range) constrains the     *)
(* items that are there.                                                   *)
(***************************************************************************)
ValidValue(constraint, value) ==
    CASE constraint.type = "array" ->
            \/ constraint.nullable /\ value = None
            \/ /\ value.kind = "list"
               /\ \A i \in DOMAIN value.val :
                      /\ value.val[i].kind = "str"
                      /\ value.val[i].val \in constraint.enum
               /\ \A i, j \in DOMAIN value.val :
                      i # j => value.val[i] # value.val[j]
      [] constraint.type = "string" ->
            value.kind = "str" /\ value.val \in constraint.enum
      [] constraint.type = "number" ->
            /\ value.kind = "int"
            /\ constraint.minimum <= value.val
            /\ value.val <= constraint.maximum
      [] constraint.type = "bbox" ->
            /\ value.kind = "list"
            /\ \A i \in DOMAIN value.val : i <= 4 =>
                  /\ value.val[i].kind = "int"
                  /\ constraint.bbox[IF i > 2 THEN i - 2 ELSE i] <= value.val[i].val
                  /\ value.val[i].val <= constraint.bbox[IF i < 3 THEN i + 2 ELSE i]
      [] constraint.type = "date_range" ->
            /\ value.kind = "list"
            /\ \A i \in DOMAIN value.val : i <= 2 =>
                  value.val[i].kind \in {"datetime", "None"}

validate_instance_KeysOnly(schema, instance) ==
    /\ schema.required \subseteq DOMAIN instance
    /\ schema.additional_properties
          \/ DOMAIN instance \subseteq DOMAIN schema.properties

validate_instance(schema, instance) ==
    /\ schema.required \subseteq DOMAIN instance
    /\ schema.additional_properties
          \/ DOMAIN instance \subseteq DOMAIN schema.properties
    /\ \A k \in DOMAIN instance \cap DOMAIN schema.properties :
          ValidValue(schema.properties[k], instance[k])

(***************************************************************************)
(* CDSDataOpener._create_time_range.  numpy.arange(start, stop, step) is   *)
(* held as its start, its step and its length: the points start + i*step   *)
(* for i < length, all below stop.                                         *)
(***************************************************************************)
ARange(start, stop, step) ==
    [start |-> start, step |-> step,
     length |-> IF stop > start THEN ((stop - start - 1) \div step) + 1 ELSE 0]

\* The units the pattern of _parse_time_period accepts.
PeriodUnits == {"h", "m", "s", "D", "W", "M", "Y"}

\* The seconds of a period of fixed length.
PeriodSeconds(number, unit) ==
    number * (CASE unit = "s" -> 1
                [] unit = "m" -> 60
                [] unit = "h" -> 3600
                [] unit = "D" -> 86400
                [] unit = "W" -> 604800)

PeriodMonths(number, unit) == IF unit = "Y" THEN 12 * number ELSE number

\* The month of dt + months - 1 microsecond, as a month index: the
\* microsecond leads into the month before when dt is the first instant
\* of its month.
EndMonthIndex(dt, months) ==
    MonthIndex(dt.year, dt.month) + months
        - (IF dt.day = 1 /\ dt.hour = 0 /\ dt.minute = 0 THEN 1 ELSE 0)

create_time_range(t_start, t_end, t_interval, dt_now) ==
    IF t_start = None THEN Raised("TypeError")
    ELSE IF t_interval = None THEN Raised("TypeError")
    ELSE IF t_interval.unit \notin PeriodUnits THEN Raised("AttributeError")
    ELSE
    LET dt_end == IF t_end = None THEN dt_now ELSE t_end
        number == t_interval.number
        unit == t_interval.unit
    IN  IF unit \in {"M", "Y"}
        THEN Returned([unit |-> "M"] @@
                ARange(MonthIndex(t_start.year, t_start.month),
                       EndMonthIndex(dt_end, PeriodMonths(number, unit)),
                       PeriodMonths(number, unit)))
        ELSE \* stop is dt_end + period - 1 microsecond: one second less
             \* bounds the same points, which lie on whole seconds.
             Returned([unit |-> "s", origin |-> t_start] @@
                ARange(0,
                       (Minutes(dt_end) - Minutes(t_start)) * 60
                           + PeriodSeconds(number, unit),
                       PeriodSeconds(number, unit)))

(***************************************************************************)
(* CDSDataOpener._create_empty_dataset: a new store describes the data;    *)
(* the coordinates are made of the open parameters, the descriptor         *)
(* standing in for a bbox or a spatial_res they do not hold.               *)
(***************************************************************************)
\* The stop of the spatial ranges: almost a whole spatial_res beyond the
\* upper limit.
AlmostOne(spatial_res) == (spatial_res * 99) \div 100

create_empty_dataset(data_id, open_params, dt_now) ==
    LET described == Store_describe_data(data_id, None)
        evs == <<"CDSDataStore">> \o described.events
    IN  IF described.result.status = "raised"
        THEN Outcome(described.result, evs)
        ELSE
        LET data_descriptor == described.result.value
            bbox == IF "bbox" \in DOMAIN open_params
                    THEN [i \in DOMAIN open_params.bbox.val |->
                            open_params.bbox.val[i].val]
                    ELSE data_descriptor.bbox
            spatial_res == IF "spatial_res" \in DOMAIN open_params
                           THEN open_params.spatial_res.val
                           ELSE data_descriptor.spatial_res
            lons == ARange(bbox[1], bbox[3] + AlmostOne(spatial_res), spatial_res)
            lats == ARange(bbox[2], bbox[4] + AlmostOne(spatial_res), spatial_res)
        IN  IF "time_range" \notin DOMAIN open_params
            THEN Outcome(Raised("KeyError"), evs)
            ELSE IF Len(open_params.time_range.val) < 2
            THEN Outcome(Raised("IndexError"), evs)
            ELSE
            LET times == create_time_range(open_params.time_range.val[1],
                                           open_params.time_range.val[2],
                                           data_descriptor.time_period, dt_now)
            IN  IF times.status = "raised" THEN Outcome(times, evs)
                ELSE Outcome(Returned([data_vars |-> {},
                                       coords |-> [time |-> times.value,
                                                   lat |-> lats,
                                                   lon |-> lons]]),
                             evs)


(***************************************************************************)
(* CDSDataStore.open_data and CDSDataOpener.open_data up to the request.   *)
(* The store checks the opener identifier and the data identifier; the     *)
(* opener validates the open parameters against the schema of the data     *)
(* identifier and completes them with its defaults; then either the empty  *)
(* dataset is made or the handler transforms the parameters to the         *)
(* request.  A step gives the result, the events, the position reached     *)
(* and the local variables kept.                                           *)
(***************************************************************************)
Step(res, evs, next, locals) ==
    [result |-> res, events |-> evs, next |-> next, frame |-> locals]

Failed(e, evs) == Step(Raised(e), evs, "done", <<>>)

open_data_check(data_id, opener_id) ==
    IF InvalidOpenerId(opener_id) THEN Failed("DataStoreError", <<>>)
    ELSE IF UnknownDataId(data_id, FALSE) THEN Failed("ValueError", <<>>)
    ELSE Step(NoResult, <<>>, "validate", <<>>)

\* The defaults of the schema's properties, updated with the open
\* parameters given.
fill_in_defaults_Overriding(schema, open_params) ==
    Update(open_params, schema.defaults)

fill_in_defaults(schema, open_params) ==
    Update(schema.defaults, open_params)

\* The schema is fetched for the validation and again for the defaults.
\* The calls carry none of the unofficial parameters (_read_file_from,
\* _save_file_to, _save_zarr_to, _save_request_to) open_data pops first.
open_data_validate(data_id, open_params) ==
    LET schema == Store_get_open_data_params_schema(data_id, None)
    IN  IF schema.result.status = "raised"
        THEN Step(schema.result, schema.events, "done", <<>>)
        ELSE IF ~validate_instance(schema.result.value, open_params)
        THEN Failed("ValidationError", schema.events)
        ELSE IF data_id \notin DOMAIN handler_registry
        THEN Failed("KeyError", schema.events)
        ELSE LET all_open_params ==
                     fill_in_defaults(schema.result.value, open_params)
                 locals == [handler |-> handler_registry[data_id],
                            open_params |-> all_open_params]
             IN  IF "variable_names" \notin DOMAIN all_open_params
                 THEN Failed("KeyError", schema.events \o schema.events)
                 ELSE IF all_open_params.variable_names = PyList(<<>>)
                 THEN Step(NoResult, schema.events \o schema.events,
                           "empty", locals)
                 ELSE Step(NoResult, schema.events \o schema.events,
                           "transform", locals)

open_data_transformed(locals, transformed) ==
    IF transformed.status = "raised"
    THEN Step(transformed, <<HandlerEvent("transform_params")>>, "done", locals)
    ELSE Step(NoResult, <<HandlerEvent("transform_params")>>, "fetch",
              Update(locals, [dataset_name |-> transformed.value[1],
                              cds_api_params |-> transformed.value[2]]))

open_data_transform(locals, data_id, api_version, dt_now) ==
    open_data_transformed(locals,
                          transform_params(locals.handler, locals.open_params,
                                           data_id, api_version, dt_now))

(***************************************************************************)
(* The calls of the store the model makes.  The open parameters are those  *)
(* given to the handlers and two that no ERA5 schema accepts: a bounding   *)
(* box beyond 180 degrees and a variable the dataset does not have.        *)
(***************************************************************************)
OpenerIds == {None, CDS_DATA_OPENER_ID, PyStr("dataset:zarr:cds")}

DataTypes == {None, PyStr("dataset"), PyStr("geodataframe")}

InvalidOpenParams ==
    {[variable_names |-> variable_names,
      bbox |-> bbox,
      time_range |-> PyList(<<DateTime(2000, 1, 1, 0, 0),
                              DateTime(2000, 12, 31, 0, 0)>>)] :
        variable_names \in {PyList(<<>>), StrList(<<"2m_temperature">>),
                            StrList(<<"no_such_variable">>)},
        bbox \in BBoxes \cup {PyList(<<PyInt(Degrees(-1)), PyInt(Degrees(-1)),
                                       PyInt(Degrees(181)), PyInt(Degrees(1))>>)}}

StoreCalls ==
    [op : {"describe_data"}, data_id : DataIds, data_type : DataTypes]
    \cup [op : {"get_open_data_params_schema"},
          data_id : DataIds \cup {NoDataId}, opener_id : OpenerIds]
    \cup [op : {"open_data"}, data_id : DataIds, opener_id : OpenerIds,
          open_params : OpenParams \cup InvalidOpenParams]

InitStore ==
    /\ call \in StoreCalls
    /\ pc = "call"
    /\ result = NoResult
    /\ events = <<>>
    /\ frame = <<>>
    /\ opener = <<>>
    /\ fs = {}
    /\ now = NowDefault

StoreDescribeData ==
    /\ pc = "call"
    /\ call.op = "describe_data"
    /\ LET outcome == Store_describe_data(call.data_id, call.data_type)
       IN  /\ result' = outcome.result
           /\ events' = outcome.events
    /\ pc' = "done"
    /\ UNCHANGED <<call, now, frame, opener, fs>>

StoreGetOpenDataParamsSchema ==
    /\ pc = "call"
    /\ call.op = "get_open_data_params_schema"
    /\ LET outcome ==
               Store_get_open_data_params_schema(call.data_id, call.opener_id)
       IN  /\ result' = outcome.result
           /\ events' = outcome.events
    /\ pc' = "done"
    /\ UNCHANGED <<call, now, frame, opener, fs>>

StoreOpenData ==
    /\ pc = "call"
    /\ call.op = "open_data"
    /\ LET step == open_data_check(call.data_id, call.opener_id)
       IN  /\ result' = step.result
           /\ pc' = step.next
    /\ UNCHANGED <<call, events, now, frame, opener, fs>>

OpenDataValidate ==
    /\ pc = "validate"
    /\ LET step == open_data_validate(call.data_id, call.open_params)
       IN  /\ result' = step.result
           /\ events' = events \o step.events
           /\ pc' = step.next
           /\ frame' = step.frame
    /\ UNCHANGED <<call, now, opener, fs>>

CreateEmptyDataset ==
    /\ pc = "empty"
    /\ LET dataset == create_empty_dataset(call.data_id, frame.open_params, now)
       IN  /\ result' = dataset.result
           /\ events' = events \o dataset.events
    /\ pc' = "done"
    /\ UNCHANGED <<call, now, frame, opener, fs>>

\* The registered ERA5 handler is made with the default API version, 1.
OpenDataTransform ==
    /\ pc = "transform"
    /\ \E step \in {open_data_transform(frame, call.data_id, 1, now)} :
           /\ result' = step.result
           /\ events' = events \o step.events
           /\ pc' = step.next
           /\ frame' = step.frame
    /\ UNCHANGED <<call, now, opener, fs>>

(***************************************************************************)
(* CDSDataOpener._fetch_file_via_cds_api: the client is made (which may    *)
(* fail), a subdirectory for the file is made, the client retrieves the    *)
(* file (which may fail) and, whenever a client was made, its session is   *)
(* closed.                                                                 *)
(***************************************************************************)
FetchFile ==
    /\ pc = "fetch"
    /\ \/ /\ events' = events \o <<"client">>
          /\ result' = Raised("ClientError")
          /\ pc' = "done"
       \/ /\ events' = events \o <<"client", "mkdtemp", "client.retrieve",
                                   "client.session.close">>
          /\ \/ result' = Raised("RetrieveError") /\ pc' = "done"
             \/ result' = result /\ pc' = "read"
    /\ UNCHANGED <<call, now, frame, opener, fs>>

(***************************************************************************)
(* CDSDataOpener._open_data_with_handler after the fetch: a subdirectory   *)
(* for the handler is made and the handler reads the file (which may       *)
(* fail); the dataset read is normalized and returned.                     *)
(***************************************************************************)
ReadFile ==
    /\ pc = "read"
    /\ events' = events \o <<"mkdtemp", HandlerEvent("read_file")>>
    /\ \/ result' = Raised("ReadError") /\ pc' = "done" /\ frame' = frame
       \/ /\ result' = result
          /\ pc' = "normalize"
          /\ frame' = Update(frame, [dataset |->
                                        [file_of |-> frame.dataset_name,
                                         normalized |-> FALSE]])
    /\ UNCHANGED <<call, now, opener, fs>>

NormalizeDataset ==
    /\ pc = "normalize"
    /\ events' = events \o <<"normalize_dataset">>
    /\ result' = Returned(Update(frame.dataset, [normalized |-> TRUE]))
    /\ pc' = "done"
    /\ UNCHANGED <<call, now, frame, opener, fs>>

NextStore ==
    \/ StoreDescribeData
    \/ StoreGetOpenDataParamsSchema
    \/ StoreOpenData
    \/ OpenDataValidate
    \/ CreateEmptyDataset
    \/ OpenDataTransform
    \/ FetchFile
    \/ ReadFile
    \/ NormalizeDataset

SpecStore == InitStore /\ [][NextStore]_vars


(***************************************************************************)
(* Properties of the store (specification SpecStore).                      *)
(***************************************************************************)
StoreDone(op) == pc = "done" /\ call.op = op

EventSet == {events[i] : i \in DOMAIN events}

\* The call names an identifier, with or without open parameters.
RegisteredCall == call.data_id \in DOMAIN handler_registry

\* open_data with an accepted opener identifier, variable_names = [] and
\* otherwise valid parameters: a time range start <= end (or an open end)
\* and, for an ERA5 identifier, a bounding box inside the dataset's and
\* possibly a spatial resolution; no other parameter.
EmptyVariablesCall ==
    /\ call.op = "open_data"
    /\ RegisteredCall
    /\ call.opener_id \in {None, CDS_DATA_OPENER_ID}
    /\ {"variable_names", "time_range"} \subseteq DOMAIN call.open_params
    /\ call.open_params.variable_names = PyList(<<>>)
    /\ LET time_range == call.open_params.time_range.val
       IN  /\ Len(time_range) = 2
           /\ time_range[2] # None =>
                  Minutes(time_range[1]) <= Minutes(time_range[2])
    /\ IF call.data_id \in ERA5_valid_data_ids
       THEN /\ "bbox" \in DOMAIN call.open_params
            /\ call.open_params.bbox \in BBoxes
            /\ DOMAIN call.open_params \subseteq
                   {"variable_names", "time_range", "bbox", "spatial_res"}
       ELSE DOMAIN call.open_params = {"variable_names", "time_range"}

\* The grid the parameters imply, computed from the tables: the points
\* from the lower to the upper limit of the bounding box, spatial_res
\* apart, and the months from that of the start to that of the end or the
\* points a period apart from the start to the end, with one more beyond
\* the end when the range is no multiple of the period.
GridPoints(lower, upper, spatial_res) == ((upper - lower) \div spatial_res) + 1

ExpectedBBox ==
    IF "bbox" \in DOMAIN call.open_params
    THEN [i \in 1 .. 4 |-> call.open_params.bbox.val[i].val]
    ELSE <<Degrees(-180),
           IF call.data_id \in SeaIce_data_id_map THEN 166239 ELSE Degrees(-90),
           Degrees(180), Degrees(90)>>

ExpectedRes ==
    IF "spatial_res" \in DOMAIN call.open_params
    THEN call.open_params.spatial_res.val
    ELSE IF call.data_id \in ERA5_valid_data_ids
    THEN ERA5_dataset_dicts[call.data_id[1]].spatial_res
    ELSE IF call.data_id \in SoilMoisture_data_id_map THEN 2500
    ELSE Degrees(25)

\* The days of the period of a dataset that is not monthly (the sea-ice
\* thickness data are monthly).
PeriodDays == IF call.data_id[Len(call.data_id)] = "10-day" THEN 10 ELSE 1

MonthlyData ==
    \/ call.data_id \in ERA5_valid_data_ids \cup SeaIce_data_id_map
    \/ call.data_id[Len(call.data_id)] = "monthly"

ExpectedTimes ==
    LET t_start == call.open_params.time_range.val[1]
        t_end == IF call.open_params.time_range.val[2] = None THEN now
                 ELSE call.open_params.time_range.val[2]
    IN  IF MonthlyData
        THEN MonthIndex(t_end.year, t_end.month)
                - MonthIndex(t_start.year, t_start.month) + 1
        ELSE LET span == Minutes(t_end) - Minutes(t_start)
                 period == PeriodDays * MinutesPerDay
             IN  (span \div period) + 1 + (IF span % period = 0 THEN 0 ELSE 1)

EmptyDataset(dataset) ==
    /\ dataset.data_vars = {}
    /\ DOMAIN dataset.coords = {"time", "lat", "lon"}
    /\ dataset.coords.lon.length =
            GridPoints(ExpectedBBox[1], ExpectedBBox[3], ExpectedRes)
    /\ dataset.coords.lat.length =
            GridPoints(ExpectedBBox[2], ExpectedBBox[4], ExpectedRes)
    /\ dataset.coords.time.length = ExpectedTimes

ShortCircuit ==
    /\ EventSet \cap {"client", "client.retrieve",
                      HandlerEvent("transform_params"),
                      HandlerEvent("read_file")} = {}
    /\ pc = "done" =>
          result.status = "returned" /\ EmptyDataset(result.value)

\* C7: empty-variable short circuit.  For every supported data identifier,
\* open_data with variable_names = [] and otherwise valid parameters never
\* makes or calls the backend client, never calls the handler's
\* transform_params or read_file, and returns a dataset of no data
\* variables with time, lat and lon coordinates computed from bbox,
\* spatial_res, time_range and the dataset's time period.
C7_EmptyVariableShortCircuit == EmptyVariablesCall => ShortCircuit

\* The range does not end on the first instant of a month (the month
\* _create_time_range leaves out of a monthly range).
EndsInsideMonth ==
    LET t_end == IF call.open_params.time_range.val[2] = None THEN now
                 ELSE call.open_params.time_range.val[2]
    IN  ~(t_end.day = 1 /\ t_end.hour = 0 /\ t_end.minute = 0)

\* The same for the identifiers of the ERA5 and the soil-moisture handler
\* only, with a range that does not end on the first instant of a month.
C7_GridDatasets ==
    (/\ EmptyVariablesCall
     /\ call.data_id \notin SeaIce_data_id_map
     /\ EndsInsideMonth)
        => ShortCircuit

C7_GridDatasets_Witness ==
    /\ EmptyVariablesCall
    /\ call.data_id = <<"satellite-soil-moisture", "volumetric", "10-day">>
    /\ pc = "done"
    /\ result.status = "returned"
    /\ result.value.coords.lon.length = 1441

\* An identifier that is not in the handler registry.
UnknownCall == call.data_id # NoDataId /\ ~RegisteredCall

\* C8 (as stated): for every identifier that is not in the handler
\* registry, describe_data, get_open_data_params_schema and open_data each
\* fail with ValueError and never reach a handler or the backend client.
C8_UnknownIdValueError ==
    UnknownCall =>
        /\ events = <<>>
        /\ pc \in {"call", "done"}
        /\ pc = "done" => result = Raised("ValueError")

\* C8 (amended): for every identifier that is not in the handler registry,
\* describe_data, get_open_data_params_schema and open_data each fail and
\* never reach a handler or the backend client; the error is ValueError,
\* except that get_open_data_params_schema and open_data given an
\* opener_id other than None and the store's raise DataStoreError.
C8_UnknownIdRejected ==
    UnknownCall =>
        /\ events = <<>>
        /\ pc \in {"call", "done"}
        /\ pc = "done" =>
              result = IF /\ call.op # "describe_data"
                          /\ call.opener_id \notin {None, CDS_DATA_OPENER_ID}
                       THEN Raised("DataStoreError")
                       ELSE Raised("ValueError")

C8_Witness ==
    /\ UnknownCall
    /\ StoreDone("open_data")
    /\ call.data_id = <<"this-data-id-does-not-exist">>
    /\ result = Raised("ValueError")


(***************************************************************************)
(* Files.  A path is the sequence of its components.  What the backend     *)
(* delivers (or _read_file_from names) is a NetCDF file, a zip archive or  *)
(* a gzipped tar archive; an archive holds member files, each a NetCDF     *)
(* file with its global attributes.  A string attribute is the sequence of *)
(* its code points, which is what Python's comparison of strings reads.    *)
(***************************************************************************)
Parent(path) == SubSeq(path, 1, Len(path) - 1)

\* The bound of the number of files combined.
MaxFiles == 3

\* "1", "10" and "2": a string, one it is a prefix of, and a shorter one
\* that sorts after both.
CoverageStrings == {PyStr(<<49>>), PyStr(<<49, 48>>), PyStr(<<50>>)}

\* str.__lt__: the first differing code point decides, a proper prefix is
\* smaller.
RECURSIVE StrLess(_, _)
StrLess(a, b) ==
    IF a = <<>> THEN b # <<>>
    ELSE IF b = <<>> THEN FALSE
    ELSE IF Head(a) # Head(b) THEN Head(a) < Head(b)
    ELSE StrLess(Tail(a), Tail(b))

\* min and max of a non-empty list of strings: the first of the smallest
\* (largest) items.
RECURSIVE PyMin(_)
PyMin(s) ==
    IF Len(s) = 1 THEN s[1]
    ELSE LET rest == PyMin(Tail(s))
         IN  IF StrLess(rest.val, Head(s).val) THEN rest ELSE Head(s)

RECURSIVE PyMax(_)
PyMax(s) ==
    IF Len(s) = 1 THEN s[1]
    ELSE LET rest == PyMax(Tail(s))
         IN  IF StrLess(Head(s).val, rest.val) THEN rest ELSE Head(s)

(***************************************************************************)
(* CDSDatasetHandler.combine_netcdf_time_limits, of the attributes of the  *)
(* files at the paths, in the order of the paths.                          *)
(***************************************************************************)
combine_netcdf_time_limits_FirstFile(attrs) ==
    IF \E i \in DOMAIN attrs :
          ~({"time_coverage_start", "time_coverage_end"} \subseteq DOMAIN attrs[i])
    THEN Raised("KeyError")
    ELSE IF attrs = <<>> THEN Raised("ValueError")
    ELSE Returned([time_coverage_start |-> attrs[1].time_coverage_start,
                   time_coverage_end |-> attrs[1].time_coverage_end])

combine_netcdf_time_limits(attrs) ==
    IF \E i \in DOMAIN attrs :
          ~({"time_coverage_start", "time_coverage_end"} \subseteq DOMAIN attrs[i])
    THEN Raised("KeyError")
    ELSE IF attrs = <<>> THEN Raised("ValueError")
    ELSE Returned(
            [time_coverage_start |->
                PyMin([i \in DOMAIN attrs |-> attrs[i].time_coverage_start]),
             time_coverage_end |->
                PyMax([i \in DOMAIN attrs |-> attrs[i].time_coverage_end])])

(***************************************************************************)
(* read_file of the handlers.  Each gives what it writes (paths of         *)
(* directories and files) and the dataset it returns or the error.         *)
(* The handlers of gzipped tar archives (soil moisture, sea ice, sea-ice   *)
(* thickness) extract the archive into temp_dir, open the files of         *)
(* temp_dir as one dataset and update its attributes with the combined     *)
(* time limits; attrs_file is the file whose attributes the dataset has    *)
(* before.  The ERA5 handler extracts a zip archive into the directory     *)
(* "temp" beside the file and opens any other file as it is.               *)
(***************************************************************************)
MemberPath(dir, i) == dir \o <<"member_" \o ToString(i)>>

ReadOutcome(writes, res) == [writes |-> writes, result |-> res]

TarGz_read_file(file, file_path, temp_dir, attrs_file) ==
    IF file.kind # "tar.gz" THEN ReadOutcome({}, Raised("ReadError"))
    ELSE
    LET paths == {MemberPath(temp_dir, i) : i \in DOMAIN file.members}
        combined == combine_netcdf_time_limits(file.members)
    IN  IF file.members = <<>> THEN ReadOutcome({}, Raised("OSError"))
        ELSE IF combined.status = "raised" THEN ReadOutcome(paths, combined)
        ELSE ReadOutcome(paths,
                Returned([attrs |-> Update(file.members[attrs_file],
                                           combined.value),
                          paths |-> paths]))

ERA5_read_file(file, file_path, temp_dir) ==
    IF file.kind = "zip"
    THEN LET path_temp == Parent(file_path) \o <<"temp">>
             paths == {MemberPath(path_temp, i) : i \in DOMAIN file.members}
         IN  IF file.members = <<>>
             THEN ReadOutcome({}, Raised("OSError"))
             ELSE ReadOutcome({path_temp} \cup paths,
                              Returned([attrs |-> file.members[1],
                                        paths |-> paths]))
    ELSE IF file.kind = "netcdf"
    THEN ReadOutcome({}, Returned([attrs |-> file.attrs,
                                   paths |-> {file_path}]))
    ELSE ReadOutcome({}, Raised("OSError"))

read_file(handler, file, file_path, temp_dir, attrs_file) ==
    IF handler = "ERA5DatasetHandler"
    THEN ERA5_read_file(file, file_path, temp_dir)
    ELSE TarGz_read_file(file, file_path, temp_dir, attrs_file)


(***************************************************************************)
(* The specification of the time limits: the attributes of at most         *)
(* MaxFiles files are combined, or a handler of gzipped tar archives       *)
(* reads an archive of these files.  A file has both attributes or         *)
(* neither.                                                                *)
(***************************************************************************)
FileAttrs ==
    [time_coverage_start : CoverageStrings, time_coverage_end : CoverageStrings]
    \cup {[title |-> PyStr(<<>>)]}

TarGzHandlers == HandlerClasses \ {"ERA5DatasetHandler"}

LimitsCalls ==
    [op : {"combine_netcdf_time_limits"}, files : ListsUpTo(FileAttrs, MaxFiles)]
    \cup [op : {"read_file"}, handler : TarGzHandlers,
          files : ListsUpTo(FileAttrs, MaxFiles)]

InitLimits ==
    /\ call \in LimitsCalls
    /\ pc = "call"
    /\ result = NoResult
    /\ events = <<>>
    /\ now = NowDefault
    /\ frame = <<>>
    /\ opener = <<>>
    /\ fs = {}

CombineNetcdfTimeLimits ==
    /\ pc = "call"
    /\ call.op = "combine_netcdf_time_limits"
    /\ result' = combine_netcdf_time_limits(call.files)
    /\ pc' = "done"
    /\ UNCHANGED <<call, events, now, frame, opener, fs>>

\* The archive is at <<"tmp", "fetch", "data">> and is extracted into
\* <<"tmp", "work">>.
TarGzReadFile ==
    /\ pc = "call"
    /\ call.op = "read_file"
    /\ \E attrs_file \in IF call.files = <<>> THEN {1} ELSE DOMAIN call.files :
          LET outcome == read_file(call.handler,
                                   [kind |-> "tar.gz", members |-> call.files],
                                   <<"tmp", "fetch", "data">>,
                                   <<"tmp", "work">>, attrs_file)
          IN  /\ result' = outcome.result
              /\ fs' = outcome.writes
    /\ pc' = "done"
    /\ UNCHANGED <<call, events, now, frame, opener>>

NextLimits == CombineNetcdfTimeLimits \/ TarGzReadFile

SpecLimits == InitLimits /\ [][NextLimits]_vars

\* a sorts before b, or is b: by the first position at which they differ,
\* the end of a string counting as before any code point.
LexicallyAtMost(a, b) ==
    \/ a = b
    \/ \E i \in 1 .. Len(b) :
          /\ \A j \in 1 .. i - 1 : j <= Len(a) /\ a[j] = b[j]
          /\ i > Len(a) \/ a[i] < b[i]

FilesWithLimits ==
    /\ call.files # <<>>
    /\ \A i \in DOMAIN call.files :
          DOMAIN call.files[i] = {"time_coverage_start", "time_coverage_end"}

IsLexicalLimits(limits) ==
    /\ \E i \in DOMAIN call.files :
          limits.time_coverage_start = call.files[i].time_coverage_start
    /\ \E i \in DOMAIN call.files :
          limits.time_coverage_end = call.files[i].time_coverage_end
    /\ \A i \in DOMAIN call.files :
          /\ LexicallyAtMost(limits.time_coverage_start.val,
                             call.files[i].time_coverage_start.val)
          /\ LexicallyAtMost(call.files[i].time_coverage_end.val,
                             limits.time_coverage_end.val)

\* C18: for every non-empty list of files that each carry
\* time_coverage_start and time_coverage_end, combine_netcdf_time_limits
\* returns exactly the lexically smallest time_coverage_start and the
\* lexically largest time_coverage_end of the files, and read_file of the
\* handlers of gzipped tar archives returns a dataset with these two
\* attribute values.
C18_CombinedTimeLimits ==
    (pc = "done" /\ call.op \in {"combine_netcdf_time_limits", "read_file"}
        /\ "files" \in DOMAIN call /\ FilesWithLimits)
        => /\ result.status = "returned"
           /\ IF call.op = "read_file"
              THEN /\ DOMAIN result.value.attrs =
                          {"time_coverage_start", "time_coverage_end"}
                   /\ IsLexicalLimits(result.value.attrs)
              ELSE /\ DOMAIN result.value =
                          {"time_coverage_start", "time_coverage_end"}
                   /\ IsLexicalLimits(result.value)

\* Three files; the smallest start "1" is not that of the first file and
\* the largest end is "2", shorter than the end "10" of another file; a
\* handler has read them.
C18_Witness ==
    /\ pc = "done"
    /\ call.op = "read_file"
    /\ Len(call.files) = 3
    /\ FilesWithLimits
    /\ call.files[1].time_coverage_start = PyStr(<<49, 48>>)
    /\ call.files[2].time_coverage_start = PyStr(<<49>>)
    /\ call.files[1].time_coverage_end = PyStr(<<50>>)
    /\ call.files[3].time_coverage_end = PyStr(<<49, 48>>)
    /\ result.status = "returned"
    /\ result.value.attrs.time_coverage_start = PyStr(<<49>>)
    /\ result.value.attrs.time_coverage_end = PyStr(<<50>>)


(***************************************************************************)
(* The store object.  CDSDataStore.__init__ keeps num_retries beside the   *)
(* fields CDSDataOpener.__init__ sets; the temporary directory of the      *)
(* object is <<"tmp">>.  A field holds None or a Python value.             *)
(***************************************************************************)
DEFAULT_NUM_RETRIES == 200

TempDir == <<"tmp">>

CDSDataStore_init(num_retries, normalize_names, endpoint_url, cds_api_key) ==
    [normalize_names |-> normalize_names,
     tempdir |-> TempDir,
     handler_registry |-> handler_registry,
     client_class |-> PyStr("cdsapi.Client"),
     cds_api_url |-> endpoint_url,
     cds_api_key |-> cds_api_key,
     last_instantiated_client |-> None,
     num_retries |-> PyInt(num_retries)]

\* The truth value of None or a string.
Truthy(v) == v # None /\ v # PyStr("")

\* _fetch_file_via_cds_api: the keyword arguments the client is made with.
client_args(self) ==
    (IF Truthy(self.cds_api_url) THEN [url |-> self.cds_api_url] ELSE <<>>)
    @@ (IF Truthy(self.cds_api_key) THEN [key |-> self.cds_api_key] ELSE <<>>)

\* _fetch_file_via_cds_api: the client made is kept in the object.
instantiate_client_Counting(self, client) ==
    [self EXCEPT !.last_instantiated_client = client,
                 !.num_retries = PyInt(self.num_retries.val - 1)]

instantiate_client(self, client) ==
    [self EXCEPT !.last_instantiated_client = client]

\* _fetch_file_via_cds_api, the finally clause: what is called on the
\* client, given the client (or None) and the exception on its way (or
\* NoResult).
fetch_finally_OnSuccess(client, raising) ==
    IF client # None /\ raising = NoResult
    THEN <<"client.session.close">> ELSE <<>>

fetch_finally_Never(client, raising) == <<>>

fetch_finally(client, raising) ==
    IF client # None THEN <<"client.session.close">> ELSE <<>>

(***************************************************************************)
(* The file system the calls write: an entry for each directory made and   *)
(* each file written, with the call that wrote it (thread and number of    *)
(* the call; <<0, 0>> is the constructor) and the operation.               *)
(* tempfile.mkdtemp makes a directory of a name that is not in use; the    *)
(* names are "1", "2", ... and it takes the first.                         *)
(***************************************************************************)
Entry(path, kind, by, op) == [path |-> path, kind |-> kind, by |-> by, op |-> op]

Paths(files) == {entry.path : entry \in files}

mkdtemp(files, dir) ==
    LET unused == {n \in 1 .. Cardinality(files) + 1 :
                        dir \o <<ToString(n)>> \notin Paths(files)}
    IN  dir \o <<ToString(CHOOSE n \in unused : \A m \in unused : n <= m)>>

\* The parameters open_data takes out of the open parameters first.
UnofficialKeys ==
    {"_read_file_from", "_save_file_to", "_save_zarr_to", "_save_request_to"}

Pop(dictionary, keys) == [k \in DOMAIN dictionary \ keys |-> dictionary[k]]

(***************************************************************************)
(* The catalog calls of CDSDataStore that take one step.                   *)
(***************************************************************************)
Store_get_data_opener_ids(data_id, data_type) ==
    IF ~is_data_type_satisfied(data_type) THEN Raised("DataStoreError")
    ELSE IF UnknownDataId(data_id, TRUE) THEN Raised("ValueError")
    ELSE Returned(<<CDS_DATA_OPENER_ID>>)

Store_has_data(data_id, data_type) ==
    Returned(is_data_type_satisfied(data_type)
                /\ data_id \in DOMAIN handler_registry)

Store_get_data_types_for_data(data_id) ==
    IF UnknownDataId(data_id, FALSE) THEN Raised("ValueError")
    ELSE Returned(<<PyStr("dataset")>>)

\* get_data_ids yields, for each item of the registry, its identifier; with
\* include_attrs it yields pairs, whose attributes hold the title the
\* handler gives when include_attrs asks for it.  What the iterator yields
\* is a bag: how often each item is yielded, the order left out.
Store_get_data_ids_PerHandler(registry, data_type, include_attrs) ==
    IF ~is_data_type_satisfied(data_type) THEN Returned(<<>>)
    ELSE Returned([item \in
                    {IF include_attrs = None THEN data_id
                     ELSE <<data_id,
                            IF "title" \in include_attrs.val
                            THEN [title |-> [handler |-> registry[data_id],
                                             human_readable |-> data_id]]
                            ELSE <<>> >> : data_id \in DOMAIN registry}
                    |-> Cardinality(DOMAIN RegisteredHandlers)])

Store_get_data_ids(registry, data_type, include_attrs) ==
    IF ~is_data_type_satisfied(data_type) THEN Returned(<<>>)
    ELSE Returned([item \in
                    {IF include_attrs = None THEN data_id
                     ELSE <<data_id,
                            IF "title" \in include_attrs.val
                            THEN [title |-> [handler |-> registry[data_id],
                                             human_readable |-> data_id]]
                            ELSE <<>> >> : data_id \in DOMAIN registry}
                    |-> 1])


\* DefaultSearchMixin.search_data, the search_data of the first base class
\* of CDSDataStore, which super().search_data() reaches: xcube's default
\* search, which takes no search parameters and yields the descriptor
\* describe_data gives for each identifier get_data_ids yields, when its
\* data type is the one asked for.  The iterator is taken to its end, as a
\* caller listing the results takes it.
DefaultSearchMixin_search_data(registry, data_type) ==
    LET described == [data_id \in DOMAIN Store_get_data_ids(
                                            registry, data_type, None).value
                        |-> Store_describe_data(data_id, None)]
        failing == {data_id \in DOMAIN described :
                        described[data_id].result.status = "raised"}
    IN  IF failing # {}
        THEN Outcome(described[CHOOSE data_id \in failing : TRUE].result,
                     <<HandlerEvent("describe_data")>>)
        ELSE Outcome(Returned([data_id \in DOMAIN described |->
                                    described[data_id].result.value]),
                     IF DOMAIN described = {} THEN <<>>
                     ELSE <<HandlerEvent("describe_data")>>)

\* CDSDataStore.search_data.
Store_search_data(registry, data_type) ==
    IF ~is_data_type_satisfied(data_type)
    THEN Outcome(Raised("DataStoreError"), <<>>)
    ELSE DefaultSearchMixin_search_data(registry, data_type)


(***************************************************************************)
(* The calls of one store object.  Each thread makes calls, one after the  *)
(* other; call[t], pc[t], result[t], events[t] and frame[t] are those of   *)
(* the call thread t is in.  The catalog calls take one step.  open_data   *)
(* takes a step for each access to what the threads share (the object's    *)
(* fields and the file system).                                            *)
(***************************************************************************)
By(t) == <<t, call[t].seq>>

Finish(t, res, evs) ==
    /\ result' = [result EXCEPT ![t] = res]
    /\ events' = [events EXCEPT ![t] = @ \o evs]
    /\ pc' = [pc EXCEPT ![t] = "done"]

Goto(t, next, evs) ==
    /\ events' = [events EXCEPT ![t] = @ \o evs]
    /\ pc' = [pc EXCEPT ![t] = next]

CallDescribeData(t) ==
    /\ pc[t] = "call"
    /\ call[t].op = "describe_data"
    /\ \E outcome \in {Store_describe_data(call[t].data_id, call[t].data_type)} :
          Finish(t, outcome.result, outcome.events)
    /\ UNCHANGED <<call, now, frame, opener, fs>>

CallGetOpenDataParamsSchema(t) ==
    /\ pc[t] = "call"
    /\ call[t].op = "get_open_data_params_schema"
    /\ \E outcome \in {Store_get_open_data_params_schema(call[t].data_id,
                                                         call[t].opener_id)} :
          Finish(t, outcome.result, outcome.events)
    /\ UNCHANGED <<call, now, frame, opener, fs>>

CallGetDataOpenerIds(t) ==
    /\ pc[t] = "call"
    /\ call[t].op = "get_data_opener_ids"
    /\ Finish(t, Store_get_data_opener_ids(call[t].data_id, call[t].data_type),
              <<>>)
    /\ UNCHANGED <<call, now, frame, opener, fs>>

CallHasData(t) ==
    /\ pc[t] = "call"
    /\ call[t].op = "has_data"
    /\ Finish(t, Store_has_data(call[t].data_id, call[t].data_type), <<>>)
    /\ UNCHANGED <<call, now, frame, opener, fs>>

CallGetDataTypesForData(t) ==
    /\ pc[t] = "call"
    /\ call[t].op = "get_data_types_for_data"
    /\ Finish(t, Store_get_data_types_for_data(call[t].data_id), <<>>)
    /\ UNCHANGED <<call, now, frame, opener, fs>>

CallGetDataIds(t) ==
    /\ pc[t] = "call"
    /\ call[t].op = "get_data_ids"
    /\ Finish(t, Store_get_data_ids(opener.handler_registry, call[t].data_type,
                                    call[t].include_attrs),
              IF call[t].include_attrs # None
                    /\ "title" \in call[t].include_attrs.val
                    /\ is_data_type_satisfied(call[t].data_type)
              THEN <<HandlerEvent("get_human_readable_data_id")>> ELSE <<>>)
    /\ UNCHANGED <<call, now, frame, opener, fs>>

CallSearchData(t) ==
    /\ pc[t] = "call"
    /\ call[t].op = "search_data"
    /\ \E outcome \in {Store_search_data(opener.handler_registry,
                                          call[t].data_type)} :
          Finish(t, outcome.result, outcome.events)
    /\ UNCHANGED <<call, now, frame, opener, fs>>

\* CDSDataStore.open_data: the opener identifier and the data identifier
\* are checked.
CallOpenData(t) ==
    /\ pc[t] = "call"
    /\ call[t].op = "open_data"
    /\ \E step \in {open_data_check(call[t].data_id, call[t].opener_id)} :
          /\ result' = [result EXCEPT ![t] = step.result]
          /\ pc' = [pc EXCEPT ![t] = step.next]
    /\ UNCHANGED <<call, events, now, frame, opener, fs>>

\* CDSDataOpener.open_data: the unofficial parameters are taken out, the
\* rest is validated and completed.
StepValidate(t) ==
    /\ pc[t] = "validate"
    /\ \E step \in {open_data_validate(call[t].data_id,
                                       Pop(call[t].open_params, UnofficialKeys))} :
          /\ result' = [result EXCEPT ![t] = step.result]
          /\ Goto(t, step.next, step.events)
          /\ frame' = [frame EXCEPT ![t] =
                [read_file_from |->
                    Get(call[t].open_params, "_read_file_from", None),
                 save_file_to |->
                    Get(call[t].open_params, "_save_file_to", None),
                 save_zarr_to |->
                    Get(call[t].open_params, "_save_zarr_to", None),
                 save_request_to |->
                    Get(call[t].open_params, "_save_request_to", None)]
                @@ step.frame]
    /\ UNCHANGED <<call, now, opener, fs>>

StepCreateEmptyDataset(t) ==
    /\ pc[t] = "empty"
    /\ \E dataset \in {create_empty_dataset(call[t].data_id,
                                            frame[t].open_params, now)} :
          IF dataset.result.status = "raised"
          THEN /\ Finish(t, dataset.result, dataset.events)
               /\ frame' = frame
          ELSE /\ Goto(t, "save_zarr", dataset.events)
               /\ frame' = [frame EXCEPT ![t] =
                                [dataset |-> dataset.result.value] @@ @]
               /\ result' = result
    /\ UNCHANGED <<call, now, opener, fs>>

\* The handler transforms the parameters; the request is written to
\* _save_request_to when that is given.
StepTransform(t) ==
    /\ pc[t] = "transform"
    /\ \E step \in {open_data_transform(frame[t], call[t].data_id, 1, now)} :
          /\ result' = [result EXCEPT ![t] = step.result]
          /\ frame' = [frame EXCEPT ![t] = step.frame]
          /\ IF step.next = "fetch" /\ Truthy(frame[t].save_request_to)
             THEN /\ Goto(t, step.next, step.events \o <<"save_request">>)
                  /\ fs' = fs \cup {Entry(frame[t].save_request_to.val, "file",
                                          By(t), "save_request")}
             ELSE /\ Goto(t, step.next, step.events)
                  /\ fs' = fs
    /\ UNCHANGED <<call, now, opener>>


(***************************************************************************)
(* _open_data_with_handler and _fetch_file_via_cds_api.  The file is the   *)
(* one _read_file_from names, or the client is made, a subdirectory of     *)
(* the temporary directory is made for the file, the client retrieves the  *)
(* file into it and the finally clause closes the client's session.  Each  *)
(* of these may raise; frame[t].raising is the exception on its way to     *)
(* the finally clause.                                                     *)
(***************************************************************************)
\* What the backend delivers, or what is at the path _read_file_from names.
MemberAttrs ==
    <<[time_coverage_start |-> PyStr(<<49, 48>>),
       time_coverage_end |-> PyStr(<<49, 48>>)],
      [time_coverage_start |-> PyStr(<<49>>),
       time_coverage_end |-> PyStr(<<50>>)]>>

BackendFiles ==
    {[kind |-> "netcdf", attrs |-> MemberAttrs[1]],
     [kind |-> "zip", members |-> MemberAttrs],
     [kind |-> "tar.gz", members |-> MemberAttrs]}

StepFetch(t) ==
    /\ pc[t] = "fetch"
    /\ IF Truthy(frame[t].read_file_from)
       THEN /\ Goto(t, "prepare", <<>>)
            /\ \E file \in BackendFiles :
                  frame' = [frame EXCEPT ![t] =
                                [file_path |-> frame[t].read_file_from.val,
                                 file |-> file, client |-> None] @@ @]
            /\ UNCHANGED <<result, opener>>
       ELSE \/ /\ Finish(t, Raised("ClientError"), <<"client_class">>)
               /\ UNCHANGED <<frame, opener>>
            \/ \E client \in {[kind |-> "client", id |-> By(t),
                               args |-> client_args(opener)]} :
                  /\ Goto(t, "fetch_mkdtemp", <<"client_class", "client">>)
                  /\ opener' = instantiate_client(opener, client)
                  /\ frame' = [frame EXCEPT ![t] =
                                  [client |-> client, raising |-> NoResult] @@ @]
                  /\ result' = result
    /\ UNCHANGED <<call, now, fs>>

StepFetchMkdtemp(t) ==
    /\ pc[t] = "fetch_mkdtemp"
    /\ \/ \E subdir \in {mkdtemp(fs, opener.tempdir)} :
             /\ Goto(t, "retrieve", <<"mkdtemp">>)
             /\ fs' = fs \cup {Entry(subdir, "dir", By(t), "fetch")}
             /\ frame' = [frame EXCEPT ![t] =
                             [file_path |-> subdir \o <<"data">>] @@ @]
       \/ /\ Goto(t, "fetch_finally", <<>>)
          /\ frame' = [frame EXCEPT ![t].raising = Raised("OSError")]
          /\ fs' = fs
    /\ UNCHANGED <<call, result, now, opener>>

StepRetrieve(t) ==
    /\ pc[t] = "retrieve"
    /\ Goto(t, "fetch_finally", <<"client.retrieve">>)
    /\ \E retrieve \in {[dataset_name |-> frame[t].dataset_name,
                         params |-> frame[t].cds_api_params,
                         file_path |-> frame[t].file_path]} :
          \/ \E file \in BackendFiles :
                /\ fs' = fs \cup {Entry(frame[t].file_path, "file", By(t),
                                        "fetch")}
                /\ frame' = [frame EXCEPT ![t] =
                                [file |-> file, retrieve |-> retrieve] @@ @]
          \/ /\ frame' = [frame EXCEPT ![t] =
                             [retrieve |-> retrieve,
                              raising |-> Raised("RetrieveError")] @@ @]
             /\ fs' = fs
    /\ UNCHANGED <<call, result, now, opener>>

\* After the finally clause: the file path is returned, or the exception
\* goes on to the caller of open_data.
fetch_return_Swallowing(raising) == "prepare"

fetch_return(raising) == IF raising = NoResult THEN "prepare" ELSE "done"

StepFetchFinally(t) ==
    /\ pc[t] = "fetch_finally"
    /\ \E closing \in {fetch_finally(frame[t].client, frame[t].raising)} :
          IF fetch_return(frame[t].raising) = "prepare"
          THEN Goto(t, "prepare", closing) /\ result' = result
          ELSE Finish(t, frame[t].raising, closing)
    /\ UNCHANGED <<call, now, frame, opener, fs>>

\* The file is copied to _save_file_to when that is given, and the
\* subdirectory for the handler is made.
StepPrepare(t) ==
    /\ pc[t] = "prepare"
    /\ \E copied \in {IF Truthy(frame[t].save_file_to)
                      THEN {Entry(frame[t].save_file_to.val, "file", By(t),
                                  "save_file")}
                      ELSE {}} :
          \/ \E temp_subdir \in {mkdtemp(fs, opener.tempdir)} :
                /\ Goto(t, "read", <<"mkdtemp">>)
                /\ fs' = fs \cup copied
                            \cup {Entry(temp_subdir, "dir", By(t), "temp_dir")}
                /\ frame' = [frame EXCEPT ![t] =
                                [temp_subdir |-> temp_subdir] @@ @]
                /\ result' = result
          \/ /\ Finish(t, Raised("OSError"), <<>>)
             /\ fs' = fs \cup copied
             /\ frame' = frame
    /\ UNCHANGED <<call, now, opener>>

\* handler.read_file: what it extracts is written.
StepReadFile(t) ==
    /\ pc[t] = "read"
    /\ \E attrs_file \in IF "members" \in DOMAIN frame[t].file
                              /\ frame[t].file.members # <<>>
                         THEN DOMAIN frame[t].file.members ELSE {1} :
       \E outcome \in {read_file(frame[t].handler, frame[t].file,
                                 frame[t].file_path, frame[t].temp_subdir,
                                 attrs_file)} :
          /\ fs' = fs \cup {Entry(path, "extracted", By(t), "read_file") :
                                path \in outcome.writes}
          /\ IF outcome.result.status = "raised"
             THEN /\ Finish(t, outcome.result, <<HandlerEvent("read_file")>>)
                  /\ frame' = frame
             ELSE /\ Goto(t, "normalize", <<HandlerEvent("read_file")>>)
                  /\ frame' = [frame EXCEPT ![t] =
                                  [dataset |-> outcome.result.value] @@ @]
                  /\ result' = result
    /\ UNCHANGED <<call, now, opener>>

\* _normalize_dataset: the data variables are renamed when the object was
\* made with normalize_names.  A name is the sequence of its characters.
WordChars == {"t", "2", "_"}

DigitChars == {"2"}

\* re.sub(r'\W|^(?=\d)', '_', name): every character that is no word
\* character becomes an underscore, and the empty match before a leading
\* digit becomes one too, so that an underscore is put before the digit.
normalize_name_NonWordOnly(name) ==
    [i \in DOMAIN name |-> IF name[i] \in WordChars THEN name[i] ELSE "_"]

normalize_name(name) ==
    (IF name # <<>> /\ name[1] \in DigitChars THEN <<"_">> ELSE <<>>)
    \o [i \in DOMAIN name |-> IF name[i] \in WordChars THEN name[i] ELSE "_"]

\* The new name of each data variable, or the ValueError of rename_vars
\* when a new name is the name of another variable.
normalize_names(enabled, data_vars) ==
    LET rename_dict ==
            [name \in {n \in data_vars : n # normalize_name(n)} |->
                normalize_name(name)]
        renamed ==
            [name \in data_vars |->
                IF name \in DOMAIN rename_dict THEN rename_dict[name]
                ELSE name]
    IN  IF ~enabled THEN Returned([name \in data_vars |-> name])
        ELSE IF \E n1, n2 \in data_vars : n1 # n2 /\ renamed[n1] = renamed[n2]
        THEN Raised("ValueError")
        ELSE Returned(renamed)

\* The data variables of the files: p54.162 as "t.2", and t2m as "t2".
DataVars == {<<"t", ".", "2">>, <<"t", "2">>}

StepNormalize(t) ==
    /\ pc[t] = "normalize"
    /\ \E names \in {normalize_names(opener.normalize_names, DataVars)} :
          IF names.status = "raised"
          THEN /\ Finish(t, names, <<"normalize_dataset">>)
               /\ frame' = frame
          ELSE /\ Goto(t, "save_zarr", <<"normalize_dataset">>)
               /\ frame' = [frame EXCEPT ![t].dataset =
                               [normalized |-> TRUE,
                                data_vars |->
                                    {names.value[n] : n \in DOMAIN names.value}]
                               @@ @]
               /\ result' = result
    /\ UNCHANGED <<call, now, opener, fs>>

\* open_data ends: the dataset is written to _save_zarr_to when that is
\* given, and returned.
StepReturn(t) ==
    /\ pc[t] = "save_zarr"
    /\ IF Truthy(frame[t].save_zarr_to)
       THEN /\ Finish(t, Returned(frame[t].dataset), <<"to_zarr">>)
            /\ fs' = fs \cup {Entry(frame[t].save_zarr_to.val, "dir", By(t),
                                    "save_zarr")}
       ELSE /\ Finish(t, Returned(frame[t].dataset), <<>>)
            /\ fs' = fs
    /\ UNCHANGED <<call, now, frame, opener>>

OpenDataSteps(t) ==
    \/ CallOpenData(t)
    \/ StepValidate(t)
    \/ StepCreateEmptyDataset(t)
    \/ StepTransform(t)
    \/ StepFetch(t)
    \/ StepFetchMkdtemp(t)
    \/ StepRetrieve(t)
    \/ StepFetchFinally(t)
    \/ StepPrepare(t)
    \/ StepReadFile(t)
    \/ StepNormalize(t)
    \/ StepReturn(t)

CatalogCalls(t) ==
    \/ CallDescribeData(t)
    \/ CallGetOpenDataParamsSchema(t)
    \/ CallGetDataOpenerIds(t)
    \/ CallHasData(t)
    \/ CallGetDataTypesForData(t)
    \/ CallGetDataIds(t)
    \/ CallSearchData(t)


(***************************************************************************)
(* The calls made of a store object, and the objects: one made with the    *)
(* defaults and one made with a retry count, an endpoint and a key.        *)
(***************************************************************************)
\* The bound of the number of calls a thread makes, one after the other.
MaxCalls == 2

ERA5Id == <<"reanalysis-era5-land-monthly-means", "monthly_averaged_reanalysis">>

SoilMoistureId == <<"satellite-soil-moisture", "volumetric", "monthly">>

SeaIceId == <<"satellite-sea-ice-thickness", "envisat">>

UnknownId == <<"this-data-id-does-not-exist">>

YearRange ==
    PyList(<<DateTime(2000, 1, 1, 0, 0), DateTime(2000, 12, 31, 0, 0)>>)

\* A bounding box whose eastern limit is beyond 180 degrees.
BBoxOutOfRange ==
    PyList(<<PyInt(Degrees(-1)), PyInt(Degrees(-1)),
             PyInt(Degrees(181)), PyInt(Degrees(1))>>)

ERA5Params(variable_names, bbox) ==
    [variable_names |-> variable_names, bbox |-> bbox, time_range |-> YearRange]

ERA5ValidParams ==
    ERA5Params(StrList(<<"2m_temperature">>), CHOOSE bbox \in BBoxes : TRUE)

ERA5EmptyParams == ERA5Params(PyList(<<>>), CHOOSE bbox \in BBoxes : TRUE)

ERA5OutOfRangeParams ==
    ERA5Params(StrList(<<"2m_temperature">>), BBoxOutOfRange)

SoilMoistureValidParams ==
    [variable_names |-> StrList(<<"volumetric_surface_soil_moisture">>),
     time_range |-> YearRange]

SoilMoistureParamsSet ==
    {SoilMoistureValidParams,
     [time_range |-> YearRange],
     [time_range |-> YearRange, type_of_sensor |-> PyStr("passive")]}

\* The unofficial parameters: none, a file to read, or the three outputs.
ReadFileFrom == "_read_file_from" :> PyStr(<<"home", "file">>)

SaveOutputs ==
    ("_save_request_to" :> PyStr(<<"out", "request.json">>))
    @@ ("_save_file_to" :> PyStr(<<"out", "file">>))
    @@ ("_save_zarr_to" :> PyStr(<<"out", "zarr">>))

WithUnofficial(params, unofficial) == {p @@ u : p \in params, u \in unofficial}

ForeignOpenerId == PyStr("dataset:zarr:cds")

OpenDataCalls ==
    [op : {"open_data"}, data_id : {ERA5Id}, opener_id : {None},
     open_params : WithUnofficial({ERA5ValidParams, ERA5EmptyParams,
                                   ERA5OutOfRangeParams},
                                  {<<>>, ReadFileFrom, SaveOutputs})]
    \cup [op : {"open_data"}, data_id : {SoilMoistureId}, opener_id : {None},
          open_params : WithUnofficial(SoilMoistureParamsSet,
                                       {<<>>, ReadFileFrom})]
    \cup [op : {"open_data"}, data_id : {SeaIceId}, opener_id : {None},
          open_params : {[time_range |-> YearRange]}]
    \cup [op : {"open_data"}, data_id : {UnknownId},
          opener_id : {None, ForeignOpenerId},
          open_params : WithUnofficial({ERA5ValidParams}, {<<>>, SaveOutputs})]

CatalogCallSet ==
    [op : {"describe_data"}, data_id : {ERA5Id, UnknownId},
     data_type : {None, PyStr("geodataframe")}]
    \cup [op : {"has_data"}, data_id : {ERA5Id, SoilMoistureId, UnknownId},
          data_type : {None, PyStr("dataset"), PyStr("geodataframe")}]
    \cup [op : {"get_open_data_params_schema"},
          data_id : {SoilMoistureId, NoDataId, UnknownId}, opener_id : {None}]
    \cup [op : {"get_data_opener_ids"}, data_id : {NoDataId, ERA5Id, UnknownId},
          data_type : {None, PyStr("dataset"), PyStr("geodataframe")}]
    \cup [op : {"get_data_types_for_data"}, data_id : {ERA5Id, UnknownId}]
    \cup [op : {"search_data"},
          data_type : {None, PyStr("dataset"), PyStr("geodataframe")}]
    \cup [op : {"get_data_ids"},
          data_type : {None, PyStr("dataset"), PyStr("geodataframe")},
          include_attrs : {None, PyList({}), PyList({"title"})}]

Numbered(calls, seq) == {c @@ [seq |-> seq] : c \in calls}

StoreObjects ==
    {CDSDataStore_init(DEFAULT_NUM_RETRIES, FALSE, None, None),
     CDSDataStore_init(3, TRUE, PyStr("https://cds.example/api"),
                       PyStr("uid:key"))}

InitObject(threads, calls) ==
    /\ opener \in StoreObjects
    /\ fs = {Entry(TempDir, "dir", <<0, 0>>, "init")}
    /\ call \in [threads -> Numbered(calls, 1)]
    /\ pc = [t \in threads |-> "call"]
    /\ result = [t \in threads |-> NoResult]
    /\ events = [t \in threads |-> <<>>]
    /\ frame = [t \in threads |-> <<>>]
    /\ now = NowDefault

\* The thread's call is over and it makes its next call.
NextCall(t) ==
    /\ pc[t] = "done"
    /\ call[t].seq < MaxCalls
    /\ call' \in {[call EXCEPT ![t] = c] :
                    c \in Numbered(OpenDataCalls \cup CatalogCallSet,
                                   call[t].seq + 1)}
    /\ pc' = [pc EXCEPT ![t] = "call"]
    /\ result' = [result EXCEPT ![t] = NoResult]
    /\ events' = [events EXCEPT ![t] = <<>>]
    /\ frame' = [frame EXCEPT ![t] = <<>>]
    /\ UNCHANGED <<now, opener, fs>>

(***************************************************************************)
(* SpecOpener: one thread makes up to MaxCalls calls of a store object.    *)
(***************************************************************************)
InitOpener == InitObject({1}, OpenDataCalls \cup CatalogCallSet)

NextOpener == OpenDataSteps(1) \/ CatalogCalls(1) \/ NextCall(1)

SpecOpener == InitOpener /\ [][NextOpener]_vars

(***************************************************************************)
(* SpecThreads: two threads each call open_data of the same store object.  *)
(***************************************************************************)
Threads == {1, 2}

ThreadCalls ==
    [op : {"open_data"}, data_id : {ERA5Id}, opener_id : {None},
     open_params : WithUnofficial({ERA5ValidParams},
                                  {<<>>, ReadFileFrom, SaveOutputs})
                   \cup {ERA5EmptyParams}]
    \cup [op : {"open_data"}, data_id : {SoilMoistureId}, opener_id : {None},
          open_params : WithUnofficial({SoilMoistureValidParams},
                                       {<<>>, ReadFileFrom})]

InitThreads == InitObject(Threads, ThreadCalls)

NextThreads == \E t \in Threads : OpenDataSteps(t)

SpecThreads == InitThreads /\ [][NextThreads]_vars


(***************************************************************************)
(* Properties of the calls of a store object (SpecOpener, SpecThreads).    *)
(***************************************************************************)
CallThreads == DOMAIN pc

RECURSIVE Count(_, _)
Count(s, e) ==
    IF s = <<>> THEN 0
    ELSE (IF Head(s) = e THEN 1 ELSE 0) + Count(Tail(s), e)

\* The positions of open_data inside _fetch_file_via_cds_api, after the
\* client was made.
InsideFetch == {"fetch_mkdtemp", "retrieve", "fetch_finally"}

\* C11: the session of every client _fetch_file_via_cds_api makes is
\* closed exactly once, whether retrieve returns, retrieve raises or the
\* making of the subdirectory raises: no session is closed that was not
\* opened or twice, and whenever the call is outside the fetch (before it,
\* after it, returned or failed) as many sessions are closed as clients
\* were made.
C11_SessionClosedOnce ==
    \A t \in CallThreads :
        LET made == Count(events[t], "client")
            closed == Count(events[t], "client.session.close")
        IN  /\ closed <= made
            /\ made <= 1
            /\ pc[t] \notin InsideFetch => closed = made

\* retrieve raised; the client was made and its session is closed.
C11_Witness ==
    \E t \in CallThreads :
        /\ pc[t] = "done"
        /\ result[t] = Raised("RetrieveError")
        /\ Count(events[t], "client") = 1
        /\ Count(events[t], "client.session.close") = 1


\* open_data of a registered identifier, with an accepted opener
\* identifier and the eastern limit of the bounding box beyond 180
\* degrees, which no schema admits.
OutOfRangeCall(t) ==
    /\ call[t].op = "open_data"
    /\ call[t].data_id \in DOMAIN handler_registry
    /\ call[t].opener_id \in {None, CDS_DATA_OPENER_ID}
    /\ "bbox" \in DOMAIN call[t].open_params
    /\ call[t].open_params.bbox.val[3].val > Degrees(180)

UnknownIdCall(t) ==
    /\ call[t].op = "open_data"
    /\ call[t].data_id \notin DOMAIN handler_registry

\* What open_data did beyond its checks: the handler's transform_params or
\* read_file, the client, a subdirectory, an output file.
SideEffects(t) ==
    {events[t][i] : i \in DOMAIN events[t]}
        \cap {HandlerEvent("transform_params"), HandlerEvent("read_file"),
              "client_class", "client", "client.retrieve", "mkdtemp",
              "save_request", "to_zarr", "CDSDataStore"}

WrittenBy(t) == {entry \in fs : entry.by = By(t)}

\* C12: fail fast.  open_data with parameters that violate the schema of
\* the identifier (a bounding box out of range) fails with
\* ValidationError, and open_data with an unknown identifier fails with
\* the unknown-identifier error (ValueError, when the opener identifier is
\* accepted), and at no moment of such a call has the handler's
\* transform_params been called, a client been made, a subdirectory or a
\* file been made, or one of the _save_* outputs been written.
C12_FailFast ==
    \A t \in CallThreads :
        (OutOfRangeCall(t) \/ UnknownIdCall(t)) =>
            /\ SideEffects(t) = {}
            /\ WrittenBy(t) = {}
            /\ pc[t] \in {"call", "validate", "done"}
            /\ pc[t] = "done" =>
                  result[t] =
                     IF OutOfRangeCall(t) THEN Raised("ValidationError")
                     ELSE IF call[t].opener_id \in {None, CDS_DATA_OPENER_ID}
                     THEN Raised("ValueError")
                     ELSE Raised("DataStoreError")

\* A call with a bounding box out of range and the three _save_* outputs
\* asked for has failed.
C12_Witness ==
    \E t \in CallThreads :
        /\ OutOfRangeCall(t)
        /\ "_save_request_to" \in DOMAIN call[t].open_params
        /\ pc[t] = "done"
        /\ result[t] = Raised("ValidationError")


\* The thread's call made a client, or called retrieve.
ClientMade(t) == "client" \in DOMAIN frame[t] /\ frame[t].client # None

RetrieveCalled(t) == "retrieve" \in DOMAIN frame[t]

\* C13: the num_retries of the store object is the retry count the
\* backend request is issued with: once retrieve is called, the client was
\* made with the object's num_retries or retrieve is called with it.
C13_RetriesConfigured ==
    \A t \in CallThreads :
        RetrieveCalled(t) =>
            \/ Get(frame[t].client.args, "num_retries", None) = opener.num_retries
            \/ Get(frame[t].retrieve, "num_retries", None) = opener.num_retries

IsPrefix(dir, path) ==
    Len(dir) <= Len(path) /\ SubSeq(path, 1, Len(dir)) = dir

\* C14: what a handler's read_file writes is inside the temp_dir it is
\* given, the subdirectory the same call made for it, and that directory
\* is there as long as the object is.
C14_ReadFileWritesInTempDir ==
    \A entry \in fs :
        entry.op = "read_file" =>
            \E dir \in fs :
                /\ dir.op = "temp_dir"
                /\ dir.by = entry.by
                /\ IsPrefix(dir.path, entry.path)

\* The directories and files a call fetches into, gives to the handler or
\* extracts.
Scratch(t) ==
    {entry.path : entry \in {e \in WrittenBy(t) :
                                e.op \in {"fetch", "temp_dir", "read_file"}}}

\* C15 with the file path included: concurrent open_data calls of one
\* object never share a fetch file path, nor a directory or file one of
\* them fetches into or extracts (_read_file_from included).
C15_CallsShareNoPath ==
    \A t1, t2 \in CallThreads :
        t1 # t2 =>
            /\ ("file_path" \in DOMAIN frame[t1] /\ "file_path" \in DOMAIN frame[t2])
                  => frame[t1].file_path # frame[t2].file_path
            /\ Scratch(t1) \cap Scratch(t2) = {}

\* C16 (as stated): no call writes a field of the store object.
C16_NoFieldWritten == [][opener' = opener]_vars

\* C16 (amended): no call writes a field of the store object other than
\* last_instantiated_client, and none adds or removes a field.
C16_OnlyLastClientWritten ==
    [][/\ DOMAIN opener' = DOMAIN opener
       /\ \A field \in DOMAIN opener \ {"last_instantiated_client"} :
              opener'[field] = opener[field]]_vars

\* The second call of a thread is over and a call has made a client.
C16_Witness ==
    \E t \in CallThreads :
        /\ call[t].seq = 2
        /\ pc[t] = "done"
        /\ result[t].status = "returned"
        /\ opener.last_instantiated_client # None

\* C17: the handler registry of the object is, at every moment, the one
\* the constructor built, and each identifier of it maps to a handler
\* whose get_supported_data_ids() holds the identifier.
C17_RegistryReadOnly ==
    /\ opener.handler_registry = handler_registry
    /\ \A data_id \in DOMAIN opener.handler_registry :
          data_id \in get_supported_data_ids(opener.handler_registry[data_id])

\* An open_data call fetched a file and a catalog call after it is over.
C17_Witness ==
    \E t \in CallThreads :
        /\ call[t].seq = 2
        /\ call[t].op = "get_data_ids"
        /\ pc[t] = "done"
        /\ \E entry \in fs : entry.op = "read_file"


\* The handler of the call's identifier was given open parameters.
HandlerReceived(t) ==
    /\ call[t].op = "open_data"
    /\ HandlerEvent("transform_params") \in
            {events[t][i] : i \in DOMAIN events[t]}

\* The defaults the schema of the identifier declares, by the handler's
\* tables.
DeclaredDefaults(data_id) ==
    get_open_data_params_schema(handler_registry[data_id], data_id).value.defaults

\* C19: the open parameters the handler receives in open_data hold, for
\* every parameter the caller gives, the caller's value; for every other
\* parameter the schema declares a default of, the default; and no other
\* parameter.
C19_DefaultsFilledIn ==
    \A t \in CallThreads :
        HandlerReceived(t) =>
            LET given == Pop(call[t].open_params, UnofficialKeys)
                defaults == DeclaredDefaults(call[t].data_id)
                received == frame[t].open_params
            IN  /\ DOMAIN received = DOMAIN given \cup DOMAIN defaults
                /\ \A k \in DOMAIN given : received[k] = given[k]
                /\ \A k \in DOMAIN defaults \ DOMAIN given :
                      received[k] = defaults[k]

\* The caller gave type_of_sensor "passive" (the default is another) and
\* neither variable_names nor version; the handler received the caller's
\* sensor and the defaults of the other two.
C19_Witness ==
    \E t \in CallThreads :
        /\ HandlerReceived(t)
        /\ call[t].data_id = SoilMoistureId
        /\ DOMAIN Pop(call[t].open_params, UnofficialKeys)
                = {"time_range", "type_of_sensor"}
        /\ frame[t].open_params.type_of_sensor = PyStr("passive")
        /\ DeclaredDefaults(SoilMoistureId).type_of_sensor # PyStr("passive")
        /\ frame[t].open_params.version = PyStr("v201912.0.0")
        /\ frame[t].open_params.variable_names =
                StrList(<<"volumetric_surface_soil_moisture">>)

\* C20: get_data_opener_ids raises DataStoreError when the data type is
\* incompatible or the identifier given is not registered, and otherwise
\* (no identifier given included) returns the tuple of the one opener
\* identifier.
C20_GetDataOpenerIds ==
    \A t \in CallThreads :
        (call[t].op = "get_data_opener_ids" /\ pc[t] = "done") =>
            result[t] =
                IF \/ call[t].data_type \notin {None, PyStr("dataset")}
                   \/ /\ call[t].data_id # NoDataId
                      /\ call[t].data_id \notin DOMAIN handler_registry
                THEN Raised("DataStoreError")
                ELSE Returned(<<CDS_DATA_OPENER_ID>>)


\* C15: in every interleaving of concurrent open_data calls of one
\* object, no directory or file one call fetches into or extracts into is
\* written by another call (_read_file_from included).
C15_ScratchDisjoint ==
    \A t1, t2 \in CallThreads : t1 # t2 => Scratch(t1) \cap Scratch(t2) = {}

\* Without _read_file_from, no two concurrent calls share a fetch file
\* path or what they write.
C15_FetchedDisjoint ==
    \A t1, t2 \in CallThreads :
        (/\ t1 # t2
         /\ "_read_file_from" \notin DOMAIN call[t1].open_params
         /\ "_read_file_from" \notin DOMAIN call[t2].open_params) =>
            /\ ("file_path" \in DOMAIN frame[t1] /\ "file_path" \in DOMAIN frame[t2])
                  => frame[t1].file_path # frame[t2].file_path
            /\ Scratch(t1) \cap Scratch(t2) = {}


(***************************************************************************)
(* The catalog of a store object: has_data and get_data_ids.               *)
(***************************************************************************)
\* The identifier of an item get_data_ids yields.
YieldedId(item, include_attrs) ==
    IF include_attrs = None THEN item ELSE item[1]

\* How often get_data_ids yielded the identifier.
TimesYielded(yielded, data_id, include_attrs) ==
    LET items == {item \in DOMAIN yielded :
                    YieldedId(item, include_attrs) = data_id}
        RECURSIVE Sum(_)
        Sum(S) == IF S = {} THEN 0
                  ELSE LET item == CHOOSE x \in S : TRUE
                       IN  yielded[item] + Sum(S \ {item})
    IN  Sum(items)

CompatibleDataType(data_type) == data_type \in {None, PyStr("dataset")}

\* C21: has_data(id, type) is true exactly when get_data_ids(type) of the
\* object yields id; for an incompatible data type has_data is false and
\* get_data_ids yields nothing, and for a compatible or absent data type
\* get_data_ids yields every registered identifier exactly once and no
\* other identifier.
C21_CatalogConsistent ==
    \A t \in CallThreads :
        /\ (call[t].op = "has_data" /\ pc[t] = "done") =>
              /\ result[t].status = "returned"
              /\ result[t].value \in BOOLEAN
              /\ result[t].value <=>
                    (call[t].data_id \in
                        DOMAIN Store_get_data_ids(opener.handler_registry,
                                                  call[t].data_type, None).value)
              /\ ~CompatibleDataType(call[t].data_type) => ~result[t].value
        /\ (call[t].op = "get_data_ids" /\ pc[t] = "done") =>
              /\ result[t].status = "returned"
              /\ ~CompatibleDataType(call[t].data_type) =>
                    DOMAIN result[t].value = {}
              /\ CompatibleDataType(call[t].data_type) =>
                    /\ \A data_id \in DOMAIN opener.handler_registry :
                          TimesYielded(result[t].value, data_id,
                                       call[t].include_attrs) = 1
                    /\ \A item \in DOMAIN result[t].value :
                          YieldedId(item, call[t].include_attrs)
                              \in DOMAIN opener.handler_registry

\* A get_data_ids call with a compatible data type and attributes, made
\* after another call of the object, yielded identifiers.
C21_Witness ==
    \E t \in CallThreads :
        /\ call[t].seq = 2
        /\ call[t].op = "get_data_ids"
        /\ call[t].data_type = PyStr("dataset")
        /\ call[t].include_attrs # None
        /\ pc[t] = "done"
        /\ DOMAIN result[t].value # {}


\* C22: search_data never returns results: with a compatible data type it
\* fails with NotImplementedError, with an incompatible one with
\* DataStoreError, and in neither case is a handler or the backend
\* reached.
C22_SearchUnsupported ==
    \A t \in CallThreads :
        (call[t].op = "search_data" /\ pc[t] = "done") =>
            /\ result[t] = IF CompatibleDataType(call[t].data_type)
                           THEN Raised("NotImplementedError")
                           ELSE Raised("DataStoreError")
            /\ events[t] = <<>>

\* The part of C22 that holds: with an incompatible data type search_data
\* fails with DataStoreError and no handler is reached.
C22_IncompatibleTypeRejected ==
    \A t \in CallThreads :
        (/\ call[t].op = "search_data"
         /\ pc[t] = "done"
         /\ ~CompatibleDataType(call[t].data_type)) =>
            /\ result[t] = Raised("DataStoreError")
            /\ events[t] = <<>>

\* What search_data does with a compatible data type: the default search
\* describes the registered identifiers, so that handlers are reached, and
\* it ends with the descriptors or with the error of a handler.
C22_SearchReachesHandlers ==
    \A t \in CallThreads :
        (/\ call[t].op = "search_data"
         /\ pc[t] = "done"
         /\ CompatibleDataType(call[t].data_type)) =>
            /\ result[t] # Raised("NotImplementedError")
            /\ events[t] = <<HandlerEvent("describe_data")>>


(***************************************************************************)
(* The order of the steps of open_data.                                    *)
(***************************************************************************)
\* The events of a call without the writes the unofficial parameters ask
\* for.
RECURSIVE Without(_, _)
Without(s, S) ==
    IF s = <<>> THEN <<>>
    ELSE IF Head(s) \in S THEN Without(Tail(s), S)
    ELSE <<Head(s)>> \o Without(Tail(s), S)

\* Every occurrence of b in s has an a before it.
Precedes(s, a, b) ==
    \A j \in DOMAIN s : s[j] = b => \E i \in 1..(j - 1) : s[i] = a

ValidatingSteps ==
    <<HandlerEvent("get_open_data_params_schema"),
      HandlerEvent("get_open_data_params_schema"),
      HandlerEvent("transform_params")>>

FetchingSteps ==
    <<"client_class", "client", "mkdtemp", "client.retrieve",
      "client.session.close">>

ReadingSteps == <<"mkdtemp", HandlerEvent("read_file"), "normalize_dataset">>

\* The events of the call the thread is in.
EventsOf(t) == {events[t][i] : i \in DOMAIN events[t]}

\* An open_data call that goes to a handler's transform_params.
RequestingCall(t) ==
    /\ call[t].op = "open_data"
    /\ HandlerEvent("transform_params") \in EventsOf(t)

\* C23: the steps of a successful open_data call with a non-empty (or
\* null) variable list are, in this order and once each: validation and
\* defaults, transform_params, the client made, retrieve into a file of a
\* fresh subdirectory, the session closed, read_file with another fresh
\* subdirectory, normalization (the fetching steps left out when
\* _read_file_from names the file); and in every call, finished or not,
\* read_file comes after retrieve and the normalization after read_file.
C23_StepsInOrder ==
    \A t \in CallThreads :
        RequestingCall(t) =>
            /\ (pc[t] = "done" /\ result[t].status = "returned") =>
                  /\ Without(events[t], {"save_request", "to_zarr"}) =
                        ValidatingSteps
                        \o (IF "_read_file_from" \in DOMAIN call[t].open_params
                            THEN <<>> ELSE FetchingSteps)
                        \o ReadingSteps
                  /\ Entry(frame[t].temp_subdir, "dir", By(t), "temp_dir")
                        \in fs
                  /\ "_read_file_from" \notin DOMAIN call[t].open_params =>
                        /\ Entry(Parent(frame[t].file_path), "dir", By(t),
                                 "fetch") \in fs
                        /\ Parent(frame[t].file_path) # frame[t].temp_subdir
            /\ "_read_file_from" \notin DOMAIN call[t].open_params =>
                  /\ Precedes(events[t], "client.retrieve",
                              HandlerEvent("read_file"))
                  /\ Precedes(events[t], "client.session.close",
                              HandlerEvent("read_file"))
            /\ Precedes(events[t], HandlerEvent("read_file"),
                        "normalize_dataset")

\* A call that fetched its file from the backend returned a dataset.
C23_Witness ==
    \E t \in CallThreads :
        /\ RequestingCall(t)
        /\ "_read_file_from" \notin DOMAIN call[t].open_params
        /\ pc[t] = "done"
        /\ result[t].status = "returned"
        /\ "client.retrieve" \in EventsOf(t)
        /\ "normalize_dataset" \in EventsOf(t)


\* The retrieve call of the thread's open_data call failed.
RetrieveFailed(t) ==
    /\ call[t].op = "open_data"
    /\ "raising" \in DOMAIN frame[t]
    /\ frame[t].raising = Raised("RetrieveError")

\* C24: when retrieve fails, open_data gives that error to its caller
\* after the session is closed, makes no second client and no second
\* retrieve call, calls neither read_file nor the normalizer, and the
\* subdirectory made for the fetch is still there.
C24_RetrieveErrorPropagates ==
    \A t \in CallThreads :
        RetrieveFailed(t) =>
            /\ pc[t] \in {"fetch_finally", "done"}
            /\ pc[t] = "done" =>
                  /\ result[t] = Raised("RetrieveError")
                  /\ events[t][Len(events[t])] = "client.session.close"
            /\ Count(events[t], "client_class") = 1
            /\ Count(events[t], "client.retrieve") = 1
            /\ HandlerEvent("read_file") \notin EventsOf(t)
            /\ "normalize_dataset" \notin EventsOf(t)
            /\ Entry(Parent(frame[t].file_path), "dir", By(t), "fetch") \in fs
            /\ \A entry \in fs :
                  entry.by = By(t) => entry.op \in {"save_request", "fetch"}

\* An open_data call ended with the error of retrieve.
C24_Witness ==
    \E t \in CallThreads :
        /\ RetrieveFailed(t)
        /\ pc[t] = "done"
        /\ result[t] = Raised("RetrieveError")


(***************************************************************************)
(* SpecOverride: ERA5DatasetHandler.transform_params called with open      *)
(* parameters that give some of hours, days, months and years explicitly,  *)
(* as one value or as several.                                             *)
(***************************************************************************)
ExplicitTimeParams ==
    {DictOf(r) : r \in
        [variable_names : {StrList(<<"2m_temperature">>)},
         bbox : BBoxes,
         time_range : TimeRanges,
         hours : {Absent, IntList(<<0>>), IntList(<<6, 18>>)},
         days : {Absent, IntList(<<1, 15>>)},
         months : {Absent, IntList(<<3>>), IntList(<<1, 12>>)},
         years : {Absent, IntList(<<1999>>)}]}

OverrideCalls ==
    [op : {"transform_params"}, handler : {"ERA5DatasetHandler"},
     api_version : {1},
     data_id : {<<"reanalysis-era5-land-monthly-means",
                  "monthly_averaged_reanalysis">>},
     open_params : ExplicitTimeParams]

InitOverride ==
    /\ call \in OverrideCalls
    /\ pc = "call"
    /\ result = NoResult
    /\ events = <<>>
    /\ frame = <<>>
    /\ opener = <<>>
    /\ fs = {}
    /\ now = NowDefault

NextOverride == HandlerTransformParams

SpecOverride == InitOverride /\ [][NextOverride]_vars

\* The values of a selector as the request holds them: the digits of each
\* and, for the hours, ":00"; one value alone stands for itself.
RequestValue(k, values) ==
    LET formatted ==
            [i \in DOMAIN values |->
                PyStr(FixedDigits(values[i], CdsWidth[k])
                      \o (IF k = "hours" THEN ":00" ELSE ""))]
    IN  IF Len(formatted) = 1 THEN formatted[1] ELSE PyList(formatted)

\* The call gave a time range transform_params takes.
TimeRangeTaken ==
    /\ HandlerDone("transform_params")
    /\ call.handler = "ERA5DatasetHandler"
    /\ result.status = "returned"

\* C25: in the request of ERA5DatasetHandler.transform_params, the entry
\* of each of hours, days, months and years that the open parameters give
\* is the given value, formatted, and not the one derived from time_range;
\* the entry of each one they do not give is the one derived from
\* time_range.
C25_ExplicitOverridesDerived ==
    TimeRangeTaken =>
        LET request == result.value[2]
            derived == convert_time_range(call.open_params.time_range.val,
                                          now).value
        IN  \A k \in DOMAIN CdsKey :
                /\ CdsKey[k] \in DOMAIN request
                /\ request[CdsKey[k]] =
                      IF k \in DOMAIN call.open_params
                      THEN RequestValue(k, [i \in DOMAIN call.open_params[k].val
                                              |-> call.open_params[k].val[i].val])
                      ELSE RequestValue(k, derived[k])

\* The months and the hours were given, the days and the years were not,
\* and the months given are not those of the time range.
C25_Witness ==
    /\ TimeRangeTaken
    /\ DOMAIN call.open_params \cap DOMAIN CdsKey = {"months", "hours"}
    /\ call.open_params.months = IntList(<<3>>)
    /\ call.open_params.time_range.val[1].month = 5
    /\ result.value[2]["month"] = PyStr("03")
    /\ result.value[2]["year"] = PyStr("2001")


(***************************************************************************)
(* The sea-ice thickness handlers (specification SpecHandler).             *)
(***************************************************************************)
\* transform_params of a sea-ice thickness handler returned a request.
SeaIceRequest ==
    /\ HandlerDone("transform_params")
    /\ call.handler \in {"SeaiceHandler", "SeaIceThicknessHandler"}
    /\ result.status = "returned"

\* The values of a request entry, one value alone being a list of one.
EntryValues(v) == IF v.kind = "list" THEN v.val ELSE <<v>>

\* The months convert_time_range derives that are none of May to
\* September, in their order, as two digits.
RECURSIVE SupportedMonths(_)
SupportedMonths(months) ==
    IF months = <<>> THEN <<>>
    ELSE (IF Head(months) \in 5..9 THEN <<>>
          ELSE <<PyStr(FixedDigits(Head(months), 2))>>)
         \o SupportedMonths(Tail(months))

\* C26: for every time range the request of the sea-ice thickness handler
\* holds no day and no time entry, and its month entry holds none of 05,
\* 06, 07, 08 and 09 and every other month derived from the time range.
C26_SeaIceMonths ==
    SeaIceRequest =>
        LET request == result.value[2]
            derived == convert_time_range(call.open_params.time_range.val,
                                          now).value
        IN  /\ "day" \notin DOMAIN request
            /\ "time" \notin DOMAIN request
            /\ "month" \in DOMAIN request
            /\ \A i \in DOMAIN EntryValues(request["month"]) :
                  EntryValues(request["month"])[i].val
                      \notin {"05", "06", "07", "08", "09"}
            /\ EntryValues(request["month"]) = SupportedMonths(derived.months)

\* A request for a whole year, which holds the seven supported months.
C26_Witness ==
    /\ SeaIceRequest
    /\ call.handler = "SeaIceThicknessHandler"
    /\ call.open_params.time_range =
          PyList(<<DateTime(2000, 1, 1, 0, 0), DateTime(2000, 12, 31, 0, 0)>>)
    /\ result.value[2]["month"] =
          StrList(<<"01", "02", "03", "04", "10", "11", "12">>)


(***************************************************************************)
(* SpecNames: _normalize_dataset renames the data variables of a dataset   *)
(* of at most two variables, whose names have at most MaxNameLen           *)
(* characters: a letter, a digit, the underscore and the dot.              *)
(***************************************************************************)
\* The bound of the length of a name.
MaxNameLen == 3

NameChars == WordChars \cup {"."}

VariableNames == ListsUpTo(NameChars, MaxNameLen) \ {<<>>}

NamesCalls ==
    [op : {"normalize_dataset"}, normalize_names : BOOLEAN,
     data_vars : {{n1, n2} : n1, n2 \in VariableNames}]

InitNames ==
    /\ call \in NamesCalls
    /\ pc = "call"
    /\ result = NoResult
    /\ events = <<>>
    /\ frame = <<>>
    /\ opener = <<>>
    /\ fs = {}
    /\ now = NowDefault

NormalizeNames ==
    /\ pc = "call"
    /\ call.op = "normalize_dataset"
    /\ result' = normalize_names(call.normalize_names, call.data_vars)
    /\ pc' = "done"
    /\ UNCHANGED <<call, events, now, frame, opener, fs>>

NextNames == NormalizeNames

SpecNames == InitNames /\ [][NextNames]_vars

\* The dataset was returned with its names normalized, or as they were.
NamesReturned(enabled) ==
    /\ pc = "done"
    /\ call.op = "normalize_dataset"
    /\ call.normalize_names = enabled
    /\ result.status = "returned"

\* A name of word characters only that does not start with a digit.
Complies(name) ==
    /\ \A i \in DOMAIN name : name[i] \in {"t", "2", "_"}
    /\ name # <<>> => name[1] # "2"

\* The character at position i is no word character, or a leading digit.
Offending(name, i) ==
    \/ name[i] = "."
    \/ i = 1 /\ name[i] = "2"

\* C27 (as stated): with normalization enabled every name of the dataset
\* returned complies, each offending character (one that is no word
\* character, or a leading digit) having been replaced by an underscore;
\* names that comply are unchanged; with normalization disabled no name is
\* changed.
C27_OffendingReplaced ==
    /\ NamesReturned(TRUE) =>
          \A name \in call.data_vars :
              /\ Complies(result.value[name])
              /\ result.value[name] =
                    [i \in DOMAIN name |->
                        IF Offending(name, i) THEN "_" ELSE name[i]]
              /\ Complies(name) => result.value[name] = name
    /\ NamesReturned(FALSE) =>
          \A name \in call.data_vars : result.value[name] = name

\* C27 (amended): with normalization enabled every name of the dataset
\* returned complies, each character that is no word character having
\* been replaced by an underscore and an underscore put before a leading
\* digit, which is kept; names that comply are unchanged; with
\* normalization disabled no name is changed.
C27_NamesNormalized ==
    /\ NamesReturned(TRUE) =>
          \A name \in call.data_vars :
              LET new == result.value[name]
                  shift == IF name[1] = "2" THEN 1 ELSE 0
              IN  /\ Complies(new)
                  /\ Len(new) = Len(name) + shift
                  /\ shift = 1 => new[1] = "_"
                  /\ \A i \in DOMAIN name :
                        new[i + shift] = IF name[i] = "." THEN "_" ELSE name[i]
                  /\ Complies(name) => new = name
    /\ NamesReturned(FALSE) =>
          \A name \in call.data_vars : result.value[name] = name

\* A dataset with a name like p54.162 and a name that starts with a digit
\* was returned with both renamed.
C27_Witness ==
    /\ NamesReturned(TRUE)
    /\ call.data_vars = {<<"t", ".", "2">>, <<"2", "t">>}
    /\ result.value[<<"t", ".", "2">>] = <<"t", "_", "2">>
    /\ result.value[<<"2", "t">>] = <<"_", "2", "t">>


(***************************************************************************)
(* SpecRange: _create_time_range called with a start, an end (or an open   *)
(* end) not before it, and a period of months, years, days or hours.  The  *)
(* ends include first instants of a month and ends that lie a whole number *)
(* of periods after the start, or not.                                     *)
(***************************************************************************)
RangeStarts ==
    {DateTime(2000, 1, 1, 0, 0), DateTime(2000, 1, 15, 0, 0),
     DateTime(2000, 2, 1, 6, 0)}

RangeEnds ==
    {DateTime(2000, 2, 1, 6, 0), DateTime(2000, 3, 1, 0, 0),
     DateTime(2000, 3, 31, 0, 0), DateTime(2000, 4, 20, 12, 0),
     DateTime(2001, 1, 1, 0, 0), DateTime(2001, 12, 31, 0, 0), None}

RangePeriods ==
    {[number |-> 1, unit |-> "M"], [number |-> 3, unit |-> "M"],
     [number |-> 1, unit |-> "Y"], [number |-> 1, unit |-> "D"],
     [number |-> 10, unit |-> "D"], [number |-> 6, unit |-> "h"]}

RangeCalls ==
    [op : {"create_time_range"}, t_start : RangeStarts, t_end : RangeEnds,
     t_interval : RangePeriods]

InitRange ==
    /\ call \in RangeCalls
    /\ pc = "call"
    /\ result = NoResult
    /\ events = <<>>
    /\ frame = <<>>
    /\ opener = <<>>
    /\ fs = {}
    /\ now = NowDefault

CreateTimeRange ==
    /\ pc = "call"
    /\ call.op = "create_time_range"
    /\ result' = create_time_range(call.t_start, call.t_end, call.t_interval,
                                   now)
    /\ pc' = "done"
    /\ UNCHANGED <<call, events, now, frame, opener, fs>>

NextRange == CreateTimeRange

SpecRange == InitRange /\ [][NextRange]_vars

RangeDone == pc = "done" /\ call.op = "create_time_range"

RangeEnd == IF call.t_end = None THEN now ELSE call.t_end

MonthPeriod == call.t_interval.unit \in {"M", "Y"}

\* The period in months, or in seconds.
PeriodLength ==
    IF MonthPeriod
    THEN call.t_interval.number * (IF call.t_interval.unit = "Y" THEN 12 ELSE 1)
    ELSE call.t_interval.number
            * (IF call.t_interval.unit = "D" THEN 86400 ELSE 3600)

\* The start and the end in the unit of the points: the index of the month
\* each lies in, or the seconds since the start.
StartPoint ==
    IF MonthPeriod THEN MonthIndex(call.t_start.year, call.t_start.month)
    ELSE 0

EndPoint ==
    IF MonthPeriod THEN MonthIndex(RangeEnd.year, RangeEnd.month)
    ELSE (Minutes(RangeEnd) - Minutes(call.t_start)) * 60

LastPoint == result.value.start + (result.value.length - 1) * result.value.step

\* C28: _create_time_range returns points spaced at the interval that
\* start at t_start (the month of t_start for a period of months or
\* years) and cover t_end: t_end lies in the period that begins at the
\* last point, so that for a period of one month the month of t_end is one
\* of the points.
C28_RangeCoversEnd ==
    RangeDone =>
        /\ result.status = "returned"
        /\ result.value.step = PeriodLength
        /\ result.value.start = StartPoint
        /\ ~MonthPeriod => result.value.origin = call.t_start
        /\ result.value.length >= 1
        /\ LastPoint <= EndPoint
        /\ EndPoint < LastPoint + PeriodLength

\* What holds of the last point: it lies less than a period before t_end
\* or, for a fixed period, less than a period after it; for months and
\* years, the period after it begins after t_end.
C28_RangeReachesEnd ==
    RangeDone =>
        /\ result.status = "returned"
        /\ result.value.step = PeriodLength
        /\ result.value.start = StartPoint
        /\ IF MonthPeriod
           THEN /\ EndPoint <= LastPoint + PeriodLength
                /\ LastPoint < EndPoint + PeriodLength
           ELSE /\ result.value.length >= 1
                /\ EndPoint <= LastPoint
                /\ LastPoint < EndPoint + PeriodLength

\* A range of months that ends inside a month (as 2015-01-01 to
\* 2016-12-31 does): the month of the end is the last point.
C28_RangeOfMonths ==
    (/\ RangeDone
     /\ call.t_interval = [number |-> 1, unit |-> "M"]
     /\ ~(RangeEnd.day = 1 /\ RangeEnd.hour = 0 /\ RangeEnd.minute = 0)) =>
        /\ result.status = "returned"
        /\ result.value.start = StartPoint
        /\ LastPoint = EndPoint


(***************************************************************************)
(* SpecArea: ERA5DatasetHandler.transform_params called with bounding      *)
(* boxes of no extent, of less than a grid cell and of more, and with the  *)
(* resolutions the schema of the dataset accepts (0.1 to 10 degrees), or   *)
(* none.                                                                   *)
(***************************************************************************)
AreaCoordinates == {Degrees(0), 1000, 5000, Degrees(20)}

AreaBBoxes ==
    {PyList(<<PyInt(west), PyInt(south), PyInt(east), PyInt(north)>>) :
        west \in AreaCoordinates, south \in AreaCoordinates,
        east \in AreaCoordinates, north \in AreaCoordinates}

AreaParams ==
    {DictOf(r) : r \in
        [variable_names : {StrList(<<"2m_temperature">>)},
         bbox : AreaBBoxes,
         spatial_res : {Absent, PyInt(1000), PyInt(2500), PyInt(Degrees(10))},
         time_range : {PyList(<<DateTime(2000, 1, 1, 0, 0),
                                DateTime(2000, 12, 31, 0, 0)>>)}]}

AreaCalls ==
    [op : {"transform_params"}, handler : {"ERA5DatasetHandler"},
     api_version : {1},
     data_id : {<<"reanalysis-era5-land-monthly-means",
                  "monthly_averaged_reanalysis">>},
     open_params : AreaParams]

InitArea ==
    /\ call \in AreaCalls
    /\ LET bbox == call.open_params.bbox.val
       IN  bbox[1].val <= bbox[3].val /\ bbox[2].val <= bbox[4].val
    /\ validate_instance(
          ERA5_get_open_data_params_schema(call.data_id).value,
          call.open_params)
    /\ pc = "call"
    /\ result = NoResult
    /\ events = <<>>
    /\ frame = <<>>
    /\ opener = <<>>
    /\ fs = {}
    /\ now = NowDefault

NextArea == HandlerTransformParams

SpecArea == InitArea /\ [][NextArea]_vars

\* The area of the request: north, west, south, east.
RequestArea == result.value[2]["area"].val

\* The resolution of the request: the one given, or that of the dataset.
AreaResolution ==
    IF "spatial_res" \in DOMAIN call.open_params
    THEN call.open_params.spatial_res.val
    ELSE ERA5_dataset_dicts[call.data_id[1]].spatial_res

\* C29: for every bbox with west <= east and south <= north and every
\* resolution the schema accepts, the area [north, west, south, east] of
\* the request of the ERA5 handler, each edge cropped by half the
\* resolution, has south <= north and west <= east.
C29_AreaOrdered ==
    (TimeRangeTaken /\ call.open_params \in AreaParams) =>
        /\ RequestArea[3].val <= RequestArea[1].val
        /\ RequestArea[2].val <= RequestArea[4].val

\* The area is ordered when the bbox is at least a grid cell wide and
\* high, and only then.
C29_WideAreaOrdered ==
    (TimeRangeTaken /\ call.open_params \in AreaParams) =>
        LET bbox == call.open_params.bbox.val
        IN  /\ RequestArea[3].val <= RequestArea[1].val
                <=> bbox[4].val - bbox[2].val >= AreaResolution
            /\ RequestArea[2].val <= RequestArea[4].val
                <=> bbox[3].val - bbox[1].val >= AreaResolution


(***************************************************************************)
(* The handlers on their own identifiers (specification SpecHandler).      *)
(***************************************************************************)
RegisteredHandlerSet ==
    {RegisteredHandlers[i] : i \in DOMAIN RegisteredHandlers}

\* The call is made on a registered handler with an identifier the handler
\* lists in get_supported_data_ids().
AdvertisedCall ==
    /\ call.handler \in RegisteredHandlerSet
    /\ call.data_id \in get_supported_data_ids(call.handler)

\* The open parameters of a transform_params call are as open_data hands
\* them over: they conform to the schema the handler gives for the
\* identifier, they carry the schema's defaults, and the time_range is a
\* pair (a shorter one conforms to the schema and is refused by
\* convert_time_range), and variable_names is not the empty list, for
\* which open_data calls no transform_params.
SchemaValidParams ==
    LET schema == get_open_data_params_schema(call.handler, call.data_id)
    IN  /\ schema.status = "returned"
        /\ validate_instance(schema.value, call.open_params)
        /\ fill_in_defaults(schema.value, call.open_params) = call.open_params
        /\ ~HasInvalidLength(call.open_params["time_range"].val)
        /\ Get(call.open_params, "variable_names", None) # PyList(<<>>)

\* The call is one the four methods are said to answer: any call of the
\* three methods that take the identifier alone, and a transform_params
\* call whose parameters are schema-valid.
AnswerableCall ==
    /\ pc = "done"
    /\ AdvertisedCall
    /\ call.op = "transform_params" => SchemaValidParams

\* C30: for every registered handler and every identifier the handler
\* lists in get_supported_data_ids(), get_open_data_params_schema,
\* describe_data, get_human_readable_data_id and transform_params (with
\* schema-valid parameters) return a result; none raises.
C30_AdvertisedIdsAccepted ==
    AnswerableCall => result.status = "returned"

\* What the model shows instead: the registered handlers other than
\* SeaiceHandler answer every such call on their own identifiers.
C30_OtherHandlersAccept ==
    (AnswerableCall /\ call.handler # "SeaiceHandler")
        => result.status = "returned"

\* SeaiceHandler answers get_human_readable_data_id on its own identifiers
\* and raises ValueError in get_open_data_params_schema and describe_data
\* on each of them.
C30_SeaiceRejectsOwnIds ==
    (/\ pc = "done"
     /\ AdvertisedCall
     /\ call.handler = "SeaiceHandler"
     /\ call.op # "transform_params")
        => IF call.op = "get_human_readable_data_id"
           THEN result.status = "returned"
           ELSE result = Raised("ValueError")

=============================================================================
